---- MODULE Spec2Model ----
(***************************************************************************)
(* Model of the counter-delta telemetry front-ends of serverstats:         *)
(*   serverstats_grab-v3/src/main.rs       playback_disk/cpu/mem/net       *)
(*   serverstats_grab-v3-rhel7/src/analyze.rs   analyze                    *)
(*   livestats_view/src/main.rs            run_live_disk                   *)
(*                                                                         *)
(* A capture line is the result of line.split(','): a type tag and the     *)
(* remaining columns.  A column is a token: a token >= 0 is the decimal    *)
(* text of that number, a token < 0 is text that str::parse::<u64> rejects *)
(* (a device or interface name, or garbage).                               *)
(*                                                                         *)
(* f64 values are modelled as exact rationals [n, d] with d > 0; d = 0     *)
(* encodes the non-finite values (n = 0 NaN, n = 1 +inf, n = -1 -inf).     *)
(***************************************************************************)
EXTENDS Integers, Sequences, FiniteSets, TLC

\* ------------------------------------------------------------------ bounds
\* largest timestamp of a well-formed record (timestamps are 1..MaxTs)
MaxTs == 2
\* largest raw counter / gauge value of a well-formed record
MaxCounter == 1
\* rows a capture file may hold before analyze reaches end of file
MaxRows == 3
\* width of the model's unsigned machine word (u64 in the source)
WordBits == 4
\* largest polling interval given to the live view
MaxInterval == 1
\* rows of the longer capture files given to analyze alone
MaxSeriesRows == 4
\* rows of the capture files the device tables are built from
MaxTableRows == 6
\* rows a device table keeps: 50 in the source, scaled to the three devices
\* of the captures
TopN == 2
\* fetch workers of earlier passes that are counted one by one; more of them
\* count as MaxWorkers
MaxWorkers == 3

U64Modulus == 2 ^ WordBits
U64_MAX == U64Modulus - 1

\* ------------------------------------------------------------ Option<T>
None == <<>>
Some(v) == <<v>>
IsSome(o) == Len(o) = 1
IsNone(o) == Len(o) = 0
Unwrap(o) == o[1]
UnwrapOr(o, dflt) == IF IsSome(o) THEN o[1] ELSE dflt

\* ------------------------------------------------------------ f64
RECURSIVE GCD(_, _)
GCD(a, b) == IF b = 0 THEN a ELSE GCD(b, a % b)

Abs(x) == IF x < 0 THEN -x ELSE x
Sign(x) == IF x < 0 THEN -1 ELSE IF x > 0 THEN 1 ELSE 0

NaN == [n |-> 0, d |-> 0]
Inf(s) == [n |-> s, d |-> 0]
IsFinite(x) == x.d # 0

FNorm(n, d) ==
    LET g == GCD(Abs(n), d) IN [n |-> n \div g, d |-> d \div g]

\* `x as f64` for an unsigned integer x
F64(x) == [n |-> x, d |-> 1]
Zero == F64(0)

FDiv(a, b) ==
    IF ~IsFinite(a) \/ ~IsFinite(b) THEN NaN
    ELSE IF b.n = 0 THEN (IF a.n = 0 THEN NaN ELSE Inf(Sign(a.n)))
    ELSE FNorm(Sign(b.n) * a.n * b.d, a.d * Abs(b.n))

FMul(a, b) ==
    IF ~IsFinite(a) \/ ~IsFinite(b) THEN NaN
    ELSE FNorm(a.n * b.n, a.d * b.d)

FAdd(a, b) ==
    IF ~IsFinite(a) \/ ~IsFinite(b)
    THEN (IF a = NaN \/ b = NaN \/ (~IsFinite(a) /\ ~IsFinite(b) /\ a # b)
          THEN NaN ELSE IF ~IsFinite(a) THEN a ELSE b)
    ELSE FNorm(a.n * b.d + b.n * a.d, a.d * b.d)

FSub(a, b) == FAdd(a, [n |-> -b.n, d |-> b.d])

FGt(a, b) == IsFinite(a) /\ IsFinite(b) /\ a.n * b.d > b.n * a.d

\* ------------------------------------------------------------ u64
\* the operands of the subtraction exchanged
SaturatingSubSwapped(a, b) == IF b >= a THEN b - a ELSE 0
saturating_sub(a, b) == IF a >= b THEN a - b ELSE 0
\* a - b and a + b as the machine computes them when the result is kept
WrapSub(a, b) == (a - b) % U64Modulus
WrapAdd(a, b) == (a + b) % U64Modulus
SubOverflows(a, b) == a < b
AddOverflows(a, b) == a + b > U64_MAX

\* str::parse::<u64>(): decimal text in range, else Err
ParseU64(tok) == IF tok >= 0 /\ tok <= U64_MAX THEN Some(tok) ELSE None
\* str::parse::<u32>(): the model's two word widths coincide
ParseU32(tok) == ParseU64(tok)

Min(a, b) == IF a < b THEN a ELSE b

\* cols.next(): the i-th column of a split line, if there is one
Col(cols, i) == IF i <= Len(cols) THEN Some(cols[i]) ELSE None
\* cols.collect() after i columns were consumed
Rest(cols, i) == SubSeq(cols, i + 1, Len(cols))

\* cols.next().unwrap_or("0").parse::<u64>().unwrap_or(0)
TsOr0(cols) == UnwrapOr(ParseU64(UnwrapOr(Col(cols, 1), 0)), 0)

\* ------------------------------------------------------------ tokens
\* text tokens (never parse as a number)
sda == -1
sdb == -2
eth0 == -3
eth1 == -4
garbage == -9
sdc == -7
\* the defaults of cols.next().unwrap_or("unknown") and unwrap_or("")
unknown == -5
empty == -6

\* ------------------------------------------------------------ DISK records
\* columns a DISK record must have after the timestamp
DiskFieldCount == 18

\* DiskStat::from_csv_fields: None when there are fewer than 18 columns or a
\* numeric column does not parse; the name column is taken as it is
from_csv_fields(fields) ==
    IF Len(fields) < DiskFieldCount THEN None
    ELSE IF \E i \in 1..DiskFieldCount :
                /\ i # 3
                /\ IsNone(IF i <= 2 THEN ParseU32(fields[i])
                                    ELSE ParseU64(fields[i]))
         THEN None
    ELSE Some([major |-> fields[1], minor |-> fields[2], name |-> fields[3],
               reads |-> fields[4], reads_merged |-> fields[5],
               sectors_read |-> fields[6], read_time_ms |-> fields[7],
               writes |-> fields[8], writes_merged |-> fields[9],
               sectors_written |-> fields[10], write_time_ms |-> fields[11],
               io_in_progress |-> fields[12], io_time_ms |-> fields[13],
               weighted_io_time_ms |-> fields[14], discards |-> fields[15],
               discards_merged |-> fields[16],
               sectors_discarded |-> fields[17],
               discard_time_ms |-> fields[18]])

\* analyze.rs has its own copy of the same parser
parse_disk_from_fields(fields) ==
    IF Len(fields) < DiskFieldCount THEN None
    ELSE IF \E i \in 1..DiskFieldCount :
                /\ i # 3
                /\ IsNone(IF i <= 2 THEN ParseU32(fields[i])
                                    ELSE ParseU64(fields[i]))
         THEN None
    ELSE Some([major |-> fields[1], minor |-> fields[2], name |-> fields[3],
               reads |-> fields[4], reads_merged |-> fields[5],
               sectors_read |-> fields[6], read_time_ms |-> fields[7],
               writes |-> fields[8], writes_merged |-> fields[9],
               sectors_written |-> fields[10], write_time_ms |-> fields[11],
               io_in_progress |-> fields[12], io_time_ms |-> fields[13],
               weighted_io_time_ms |-> fields[14], discards |-> fields[15],
               discards_merged |-> fields[16],
               sectors_discarded |-> fields[17],
               discard_time_ms |-> fields[18]])

\* the ratio without its guard
RatioUnguarded(num, den) == FDiv(F64(num), F64(den))
\* if den > 0 { num as f64 / den as f64 } else { 0.0 }
Ratio(num, den) == IF den > 0 THEN FDiv(F64(num), F64(den)) ELSE Zero

\* format!("{}-{}-{}", stat.major, stat.minor, stat.name)
DiskKey(stat) == << stat.major, stat.minor, stat.name >>

\* 512.0 / 1024.0
\* the factor without the division by 1024
SectorBytes == F64(512)
SectorKB == FDiv(F64(512), F64(1024))

\* The interval arithmetic of playback_disk for one (prior, current) pair
\* with dt > 0
PlaybackDiskRow(ts, stat, last_ts, last_stat) ==
    LET dt == saturating_sub(ts, last_ts)
        d_reads == saturating_sub(stat.reads, last_stat.reads)
        d_reads_merged ==
            saturating_sub(stat.reads_merged, last_stat.reads_merged)
        d_writes == saturating_sub(stat.writes, last_stat.writes)
        d_writes_merged ==
            saturating_sub(stat.writes_merged, last_stat.writes_merged)
        d_sectors_written ==
            saturating_sub(stat.sectors_written, last_stat.sectors_written)
        d_sectors_read ==
            saturating_sub(stat.sectors_read, last_stat.sectors_read)
        delta_weighted_io_time_ms ==
            saturating_sub(stat.weighted_io_time_ms,
                           last_stat.weighted_io_time_ms)
        delta_io_time_ms ==
            saturating_sub(stat.io_time_ms, last_stat.io_time_ms)
        d_discards == saturating_sub(stat.discards, last_stat.discards)
        d_discards_merged ==
            saturating_sub(stat.discards_merged, last_stat.discards_merged)
        d_sectors_discarded ==
            saturating_sub(stat.sectors_discarded,
                           last_stat.sectors_discarded)
        d_discard_ms ==
            saturating_sub(stat.discard_time_ms, last_stat.discard_time_ms)
        d_read_ms == saturating_sub(stat.read_time_ms, last_stat.read_time_ms)
        d_write_ms ==
            saturating_sub(stat.write_time_ms, last_stat.write_time_ms)
        total_ios == WrapAdd(d_reads, d_writes)
        rd_sec_s == FDiv(F64(d_sectors_read), F64(dt))
        wr_sec_s == FDiv(F64(d_sectors_written), F64(dt))
        sectors_discarded_s == FDiv(F64(d_sectors_discarded), F64(dt))
    IN [ name |-> stat.name, ts |-> ts, dt |-> dt,
         d_reads |-> d_reads, d_reads_merged |-> d_reads_merged,
         d_writes |-> d_writes, d_writes_merged |-> d_writes_merged,
         avg_queue_depth |->
             FDiv(F64(delta_weighted_io_time_ms),
                  FMul(F64(dt), F64(1000))),
         qlen |-> Ratio(delta_weighted_io_time_ms, delta_io_time_ms),
         r_s |-> FDiv(F64(d_reads), F64(dt)),
         w_s |-> FDiv(F64(d_writes), F64(dt)),
         rd_kbs |-> FMul(rd_sec_s, SectorKB),
         wr_kbs |-> FMul(wr_sec_s, SectorKB),
         svctim |-> Ratio(delta_io_time_ms, total_ios),
         await_read_ms |-> Ratio(d_read_ms, d_reads),
         await_write_ms |-> Ratio(d_write_ms, d_writes),
         d_discards |-> d_discards,
         d_discards_merged |-> d_discards_merged,
         d_sectors_discarded |-> d_sectors_discarded,
         discard_kbs |-> FMul(sectors_discarded_s, SectorKB),
         await_discard_ms |-> Ratio(d_discard_ms, d_discards) ]

\* `let total_ios = d_reads + d_writes` aborts a build with overflow checks
DiskRowOverflows(stat, last_stat) ==
    AddOverflows(saturating_sub(stat.reads, last_stat.reads),
                 saturating_sub(stat.writes, last_stat.writes))

\* dt_obj.hour() * 3600 + dt_obj.minute() * 60 + dt_obj.second(), for a
\* local time zone at offset 0
SecsSinceMidnight(ts) == ts % (24 * 3600)

\* ------------------------------------------------------------ CPU records
\* iter.filter_map(|v| v.parse::<u64>().ok()).collect()
ParseAll(toks) == SelectSeq(toks, LAMBDA tok : IsSome(ParseU64(tok)))

\* a.iter().zip(b.iter()).map(|(v, lv)| v - lv), element by element
ZipSub(vals, last_vals) ==
    [i \in 1..Min(Len(vals), Len(last_vals)) |-> WrapSub(vals[i], last_vals[i])]
ZipSubOverflows(vals, last_vals) ==
    \E i \in 1..Min(Len(vals), Len(last_vals)) :
        SubOverflows(vals[i], last_vals[i])

RECURSIVE SumExact(_)
SumExact(seq) == IF Len(seq) = 0 THEN 0 ELSE Head(seq) + SumExact(Tail(seq))
\* .sum::<u64>()
SumU64(seq) == SumExact(seq) % U64Modulus
SumOverflows(seq) == SumExact(seq) > U64_MAX

Hundred == F64(100)

\* The columns playback_cpu reads from a CPU line of at least 13 fields:
\* fields[2..10], fields[10], fields[11], fields[12]
PlaybackCpuParse(cols) ==
    [ ts |-> UnwrapOr(ParseU64(cols[1]), 0),
      vals |-> ParseAll(SubSeq(cols, 2, 9)),
      guest |-> UnwrapOr(ParseU64(cols[10]), 0),
      running |-> ParseU64(cols[11]),
      blocked |-> ParseU64(cols[12]) ]

\* the arithmetic of playback_cpu on (prior, current) that a build with
\* overflow checks aborts on
PlaybackCpuOverflows(cur, last) ==
    \/ ZipSubOverflows(cur.vals, last.vals)
    \/ SumOverflows(ZipSub(cur.vals, last.vals))
    \/ SubOverflows(cur.guest, last.guest)
    \/ AddOverflows(SumU64(ZipSub(cur.vals, last.vals)),
                    WrapSub(cur.guest, last.guest))

\* total_vals_diff + (current_guest - last_guest)
PlaybackCpuTotal(cur, last) ==
    WrapAdd(SumU64(ZipSub(cur.vals, last.vals)),
            WrapSub(cur.guest, last.guest))

\* the row playback_cpu prints for a pair with dt > 0 and total > 0
PlaybackCpuRow(cur, last) ==
    LET total_inverse == FDiv(Hundred, F64(PlaybackCpuTotal(cur, last)))
        pct(i) == FMul(F64(WrapSub(cur.vals[i], last.vals[i])), total_inverse)
    IN [ ts |-> cur.ts, dt |-> saturating_sub(cur.ts, last.ts),
         user |-> pct(1), nice |-> pct(2), sys |-> pct(3),
         idle |-> pct(4), iowait |-> pct(5),
         guest |-> FMul(F64(saturating_sub(cur.guest, last.guest)),
                        total_inverse),
         running |-> UnwrapOr(cur.running, 0),
         blocked |-> UnwrapOr(cur.blocked, 0) ]

\* ------------------------------------------------------------ NET records
\* The 8 counters playback_net reads: cols.take(8) with unwrap_or(0)
PlaybackNetFields(cols) ==
    LET rest == Rest(cols, 2)
    IN [i \in 1..Min(8, Len(rest)) |-> UnwrapOr(ParseU64(rest[i]), 0)]

PlaybackNetOverflows(vals, last_vals) ==
    AddOverflows(saturating_sub(vals[7], last_vals[7]),
                 saturating_sub(vals[8], last_vals[8]))

\* the row playback_net prints for a pair with dt > 0
PlaybackNetRow(iface, ts, vals, last_ts, last_vals) ==
    LET dt == saturating_sub(ts, last_ts)
        d(i) == saturating_sub(vals[i], last_vals[i])
    IN [ iface |-> iface, ts |-> ts, dt |-> dt,
         rx_kbs |-> FDiv(FDiv(F64(d(1)), F64(dt)), F64(1024)),
         tx_kbs |-> FDiv(FDiv(F64(d(2)), F64(dt)), F64(1024)),
         drx_packets |-> d(3), dtx_packets |-> d(4),
         drx_errs |-> d(5), dtx_errs |-> d(6),
         drop |-> WrapAdd(d(7), d(8)) ]

\* ------------------------------------------------------------ MEM records
\* keys.iter().zip(cols) with v.parse::<u64>().unwrap_or(0): gauge name ->
\* value, for as many keys as there are columns
MemVals(keys, cols) ==
    [ k \in { keys[i] : i \in 1..Min(Len(keys), Len(cols)) } |->
        LET i == CHOOSE j \in 1..Len(keys) : keys[j] = k
        IN UnwrapOr(ParseU64(cols[i]), 0) ]

\* *vals.get(k).unwrap_or(&dflt)
GetOr(vals, k, dflt) == IF k \in DOMAIN vals THEN vals[k] ELSE dflt

\* the percentages of one MEM record (playback_mem and analyze agree)
MemRow(ts, vals) ==
    LET mem_total == F64(GetOr(vals, "MemTotal", 1))
        mem_free == F64(GetOr(vals, "MemFree", 0))
        mem_avail == F64(GetOr(vals, "MemAvailable", 0))
        cached == F64(GetOr(vals, "Cached", 0))
        used == FSub(mem_total, mem_free)
        pct(x) == IF FGt(mem_total, Zero)
                  THEN FMul(FDiv(x, mem_total), Hundred) ELSE Zero
    IN [ ts |-> ts, used_percent |-> pct(used),
         avail_percent |-> pct(mem_avail),
         cached_percent |-> pct(cached), free_percent |-> pct(mem_free) ]

\* ------------------------------------------------------------ capture lines
\* HashMap::new() and HashMap::insert
EmptyMap == [k \in {} |-> 0]
Insert(m, k, v) == [x \in DOMAIN m \cup {k} |-> IF x = k THEN v ELSE m[x]]

Line(typ, cols) == [typ |-> typ, cols |-> cols]
\* a line that starts with '#'
CommentLine == Line("#", <<>>)

\* (major, minor, name) of the block devices of the captures; two of them
\* share the device name
DiskKeys == { <<8, 0, sda>>, <<8, 1, sda>> }
\* (count counters, time counters) of a well-formed DISK record
DiskCounters ==
    { ct \in (0..MaxCounter) \X (0..MaxCounter) : ct[1] <= ct[2] }

\* the columns gather writes after the DISK tag, in its order
DiskCols(ts, key, c, t) ==
    << ts, key[1], key[2], key[3],
       c, c, c, t,          \* reads, reads_merged, sectors_read, read_time_ms
       c, c, c, t,          \* writes, writes_merged, sectors_written, write_time_ms
       0, c, t,             \* io_in_progress, io_time_ms, weighted_io_time_ms
       c, c, c, t >>        \* discards, discards_merged, sectors_discarded, discard_time_ms

DiskRecordLines ==
    { Line("DISK", DiskCols(ts, key, ct[1], ct[2])) :
        ts \in 1..MaxTs, key \in DiskKeys, ct \in DiskCounters }

\* a DISK record of a kernel without discard counters: 11 counters
DiskNoDiscardLine ==
    Line("DISK",
         SubSeq(DiskCols(MaxTs, <<8, 0, sda>>, MaxCounter, MaxCounter), 1, 15))
\* a DISK record whose reads column is not a number
DiskGarbageLine ==
    Line("DISK", [DiskCols(1, <<8, 0, sda>>, 1, 1) EXCEPT ![5] = garbage])
\* a DISK record whose timestamp column is not a number
DiskGarbageTsLine == Line("DISK", DiskCols(garbage, <<8, 0, sda>>, 1, 1))

DiskLines ==
    DiskRecordLines \cup
    { DiskNoDiscardLine, DiskGarbageLine, DiskGarbageTsLine,
      Line("DISK", <<>>), CommentLine }

\* user, nice, system, idle, iowait, irq, softirq, steal, guest, then the
\* procs_running and procs_blocked gauges
CpuCols(ts, a, r) == << ts, a, 0, 0, a, 0, 0, 0, 0, a, r, 0 >>

CpuRecordLines ==
    { Line("CPU", CpuCols(ts, a, r)) :
        ts \in 1..MaxTs, a \in 0..MaxCounter, r \in 0..MaxCounter }

\* a CPU record with 8 jiffy counters and the two gauges (no guest column)
CpuLegacyLine ==
    Line("CPU", << MaxTs, MaxCounter, 0, 0, MaxCounter, 0, 0, 0, 0,
                   MaxCounter, 0 >>)
\* a CPU record whose user column is not a number
CpuGarbageLine ==
    Line("CPU", [CpuCols(MaxTs, MaxCounter, MaxCounter) EXCEPT ![2] = garbage])

CpuLines ==
    CpuRecordLines \cup
    { CpuLegacyLine, CpuGarbageLine, Line("CPU", <<>>), CommentLine }

NetIfaces == { eth0, eth1 }
\* rx_bytes, tx_bytes, rx_packets, tx_packets, rx_errors, tx_errors,
\* rx_dropped, tx_dropped
NetCols(ts, iface, a) == << ts, iface, a, a, a, a, a, a, a, a >>

NetRecordLines ==
    { Line("NET", NetCols(ts, iface, a)) :
        ts \in 1..MaxTs, iface \in NetIfaces, a \in 0..MaxCounter }

\* a NET record with only 3 of the 8 counters
NetShortLine == Line("NET", << MaxTs, eth0, MaxCounter, MaxCounter, MaxCounter >>)
\* a NET record whose rx_bytes column is not a number
NetGarbageLine ==
    Line("NET", [NetCols(MaxTs, eth0, MaxCounter) EXCEPT ![3] = garbage])

NetLines ==
    NetRecordLines \cup
    { NetShortLine, NetGarbageLine, Line("NET", <<>>), CommentLine }

\* the 14 gauges of a MEM record, in the order gather writes them
MemKeys ==
    << "MemTotal", "MemFree", "MemAvailable", "Buffers", "Cached",
       "SwapTotal", "SwapFree", "Dirty", "Writeback", "Active(file)",
       "Inactive(file)", "Slab", "KReclaimable", "SReclaimable" >>

MemCols(ts, total, free) ==
    << ts, total, free, free, 0, free, 0, 0, 0, 0, 0, 0, 0, 0, 0 >>

MemRecordLines ==
    { Line("MEM", MemCols(ts, mf[1], mf[2])) :
        ts \in 1..MaxTs,
        mf \in { x \in (0..MaxCounter) \X (0..MaxCounter) : x[2] <= x[1] } }

\* a MEM record with only the MemTotal gauge
MemShortLine == Line("MEM", << MaxTs, MaxCounter >>)
\* a MEM record whose MemTotal column is not a number
MemGarbageLine ==
    Line("MEM", [MemCols(MaxTs, MaxCounter, MaxCounter) EXCEPT ![2] = garbage])

MemLines ==
    MemRecordLines \cup
    { MemShortLine, MemGarbageLine, Line("MEM", <<>>), CommentLine }

\* the devices of a host with two paths to its storage
PathKeys == { <<8, 0, sda>>, <<8, 1, sdb>> }
\* the DISK records of such a host: idle or busy counters
PathRecordLines ==
    { Line("DISK", DiskCols(ts, key, c, c)) :
        ts \in 1..MaxTs, key \in PathKeys, c \in { 0, MaxCounter } }
PathLines == PathRecordLines \cup { Line("DISK", <<>>), CommentLine }

\* the devices of a host with three disks
TableKeys == { <<8, 0, sda>>, <<8, 1, sdb>>, <<8, 2, sdc>> }
\* the counters a last sample may show: sda has always advanced, sdc never
LastCounters(key) ==
    CASE key[3] = sda -> { MaxCounter }
      [] key[3] = sdb -> { 0, MaxCounter }
      [] key[3] = sdc -> { 0 }
\* their DISK records: a first sample with idle counters, and a last sample
\* with the counters unchanged or advanced
TableLines ==
    { Line("DISK", DiskCols(1, key, 0, 0)) : key \in TableKeys }
    \cup UNION { { Line("DISK", DiskCols(MaxTs, key, c, c)) :
                     c \in LastCounters(key) } : key \in TableKeys }

\* ------------------------------------------------------------ gather
\* rows of a capture written by gather that a reader is given
MaxGatherRows == 2
\* a block device whose name has none of the prefixes gather records
ram0 == -8
\* the first token of the aggregate line of /proc/stat
cpu == -10

\* stat.name.starts_with("sd") || ... || stat.name.starts_with("md")
Recorded(name) == name \in { sda, sdb, sdc }

\* DiskStat::from_line: the columns of one line of /proc/diskstats; None
\* with fewer than 18 columns or a numeric column that does not parse
from_line(cols) ==
    IF Len(cols) < 18 THEN None
    ELSE IF \E i \in 1..18 :
                /\ i # 3
                /\ IsNone(IF i <= 2 THEN ParseU32(cols[i])
                                    ELSE ParseU64(cols[i]))
         THEN None
    ELSE Some([major |-> cols[1], minor |-> cols[2], name |-> cols[3],
               reads |-> cols[4], reads_merged |-> cols[5],
               sectors_read |-> cols[6], read_time_ms |-> cols[7],
               writes |-> cols[8], writes_merged |-> cols[9],
               sectors_written |-> cols[10], write_time_ms |-> cols[11],
               io_in_progress |-> cols[12], io_time_ms |-> cols[13],
               weighted_io_time_ms |-> cols[14], discards |-> cols[15],
               discards_merged |-> cols[16],
               sectors_discarded |-> cols[17],
               discard_time_ms |-> cols[18]])

\* writeln!(out, "DISK,{},{},...", now, stat.major, ..., stat.discard_time_ms)
WriteDisk(now, stat) ==
    Line("DISK",
         << now, stat.major, stat.minor, stat.name,
            stat.reads, stat.reads_merged, stat.sectors_read,
            stat.read_time_ms,
            stat.writes, stat.writes_merged, stat.sectors_written,
            stat.write_time_ms,
            stat.io_in_progress, stat.io_time_ms, stat.weighted_io_time_ms,
            stat.discards, stat.discards_merged, stat.sectors_discarded,
            stat.discard_time_ms >>)

\* the DISK lines gather writes for one line of /proc/diskstats
GatherDisk(now, cols) ==
    IF IsSome(from_line(cols)) /\ Recorded(Unwrap(from_line(cols)).name)
    THEN { WriteDisk(now, Unwrap(from_line(cols))) }
    ELSE {}

\* writeln!(out, "CPU,{},...", now, cpu_vals[1], ..., cpu_vals[9],
\*          procs_running.unwrap_or(0), procs_blocked.unwrap_or(0))
WriteCpu(now, cpu_vals, procs_running, procs_blocked) ==
    Line("CPU",
         << now, cpu_vals[2], cpu_vals[3], cpu_vals[4], cpu_vals[5],
            cpu_vals[6], cpu_vals[7], cpu_vals[8], cpu_vals[9], cpu_vals[10],
            UnwrapOr(procs_running, 0), UnwrapOr(procs_blocked, 0) >>)

\* the CPU line gather writes for one reading of /proc/stat
GatherCpu(now, stat) ==
    IF Len(stat.cpu_vals) >= 10
    THEN { WriteCpu(now, stat.cpu_vals, stat.procs_running,
                    stat.procs_blocked) }
    ELSE {}

\* the gauges of /proc/meminfo in the order gather writes them
GatherMemKeys ==
    << "MemTotal", "MemFree", "MemAvailable", "Buffers", "Cached",
       "SwapTotal", "SwapFree", "Dirty", "Writeback", "Active(file)",
       "Inactive(file)", "Slab", "KReclaimable", "SReclaimable" >>

\* writeln!(out, "MEM,{},...", now, values.get("MemTotal").unwrap_or("0"), ...)
WriteMem(now, values) ==
    Line("MEM",
         << now >> \o [i \in 1..Len(GatherMemKeys) |->
                          GetOr(values, GatherMemKeys[i], 0)])

\* the columns of a line of /proc/net/dev in the order of the file: the four
\* receive counters, then the four transmit counters
NetProcOrder == << 2, 3, 4, 5, 10, 11, 12, 13 >>
\* parts[1], parts[9], parts[2], parts[10], parts[3], parts[11], parts[4],
\* parts[12]: the order of the arguments of the writeln! of a NET line
NetOrder == << 2, 10, 3, 11, 4, 12, 5, 13 >>
\* writeln!(out, "NET,{},{},...", now, iface, rx_bytes, tx_bytes, rx_packets,
\*          tx_packets, rx_errors, tx_errors, rx_dropped, tx_dropped)
WriteNet(now, parts) ==
    Line("NET", << now, parts[1] >> \o [i \in 1..8 |-> parts[NetOrder[i]]])

\* the NET line gather writes for one line of /proc/net/dev
GatherNet(now, parts) ==
    IF Len(parts) >= 17 THEN { WriteNet(now, parts) } ELSE {}

\* what gather reads from /proc: counters numbered so that no two fields of
\* a record hold the same value
Ascending(n) == [i \in 1..n |-> i]
Descending(n) == [i \in 1..n |-> n + 1 - i]
ProcDiskstats ==
    { << 8, 0, sda >> \o Ascending(15), << 8, 1, sdb >> \o Descending(15),
      << 1, 0, ram0 >> \o Ascending(15), << 8, 2, sdc >> \o Ascending(11) }
ProcStat ==
    { [cpu_vals |-> << cpu >> \o Ascending(10),
       procs_running |-> Some(11), procs_blocked |-> Some(12)],
      [cpu_vals |-> << cpu >> \o Descending(10),
       procs_running |-> None, procs_blocked |-> Some(11)],
      [cpu_vals |-> << cpu >> \o Ascending(7),
       procs_running |-> Some(1), procs_blocked |-> Some(0)] }
ProcMeminfo ==
    { [k \in { GatherMemKeys[i] : i \in 1..14 } |->
          CHOOSE i \in 1..14 : GatherMemKeys[i] = k],
      [k \in { GatherMemKeys[i] : i \in 1..12 } |->
          15 - (CHOOSE i \in 1..12 : GatherMemKeys[i] = k)] }
ProcNetDev ==
    { << eth0 >> \o [i \in 1..16 |-> i - 1],
      << eth1 >> \o [i \in 1..16 |-> 16 - i],
      << eth0 >> \o Ascending(8) }

\* the lines of a capture gather wrote
GatherLines ==
    UNION { UNION { GatherDisk(now, cols) : cols \in ProcDiskstats }
            \cup UNION { GatherCpu(now, stat) : stat \in ProcStat }
            \cup { WriteMem(now, values) : values \in ProcMeminfo }
            \cup UNION { GatherNet(now, parts) : parts \in ProcNetDev }
          : now \in 1..MaxTs }
    \cup { Line("#", <<>>) }

\* lines of the capture that is read twice
MaxStream == 3
\* the DISK records of two devices sampled at 0..MaxTs, reads completed by
\* then: 0 at time 0, MaxCounter later
ReplayLines ==
    { Line("DISK", DiskCols(ts, key, Min(ts, MaxCounter), Min(ts, MaxCounter))) :
        ts \in 0..MaxTs, key \in PathKeys }

\* the lines a capture of the given kind may hold
LinesOf(kind) ==
    CASE kind = "DISK" -> DiskLines
      [] kind = "TABLES" -> TableLines
      [] kind = "PATHS" -> PathLines
      [] kind = "GATHER" -> GatherLines
      [] kind = "REPLAY" -> ReplayLines
      [] kind = "CPU"  -> CpuLines
      [] kind = "NET"  -> NetLines
      [] kind = "MEM"  -> MemLines

\* ------------------------------------------------------------ state
VARIABLES
    tool,             \* the front-end this run executes
    capture,          \* the kind of records its capture file holds
    overflow_checks,  \* TRUE: arithmetic overflow panics; FALSE: it wraps
    status,           \* "running", "done" (returned Ok) or "panicked"
    from_sec, to_sec, \* the --from / --to window of playback_disk
    interval,         \* the -g interval of the live view
    device_filter,    \* the -d filter of the live disk view
    file_rows,        \* the records the capture file can hold
    devices,          \* the multipath groups parse_multipath_ll returned
    line,             \* the line the read loop is at
    prev,             \* the previous-sample store of the playback / live loop
    printed_header,
    no_data,          \* the "No ... data found." message was printed
    iter,             \* the locals of the loop iteration just executed
    pc,               \* the step of analyze
    per_device, cpu_vec, mem_vec, per_net,
    disk_metrics, cpu_metrics, mem_metrics, net_metrics,
    disk_log, cpu_log, net_log,  \* the iterations of the metric loops
    mpath_out,        \* the groups report_mpath_stats printed
    tables,           \* the top-50 tables analyze wrote, by metric
    queue,            \* run_gather: the entities of the pass not yet visited
    entity,           \* run_gather: the entity timeout_retry is called for
    attempt,          \* timeout_retry: the loop variable
    chan,             \* read_with_timeout: what the worker sent, if anything
    workers,          \* the live fetch workers spawned in this pass
    old_workers,      \* the live fetch workers spawned in earlier passes
    written,          \* run_gather: the written serialized in this pass
    fetch_log,        \* the outcomes of the attempts of this pass, by entity
    epoch,            \* collectl2diskstats: the timestamp of the epoch block
    raw,              \* collectl2diskstats: the input line just read
    dat,              \* collectl2diskstats: the lines written to the .dat file
    stream,           \* the lines the first of two runs has read
    run_no,           \* 1, or 2 in the second run over the same lines
    first_run,        \* what the first run was and what it produced
    emitted           \* per line read by this run, the row it printed

config ==
    << tool, capture, overflow_checks, from_sec, to_sec, interval,
       device_filter, file_rows, devices >>
loopvars == << line, prev, printed_header, no_data, iter >>
parsed == << per_device, cpu_vec, mem_vec, per_net >>
metrics == << disk_metrics, cpu_metrics, mem_metrics, net_metrics >>
logs == << disk_log, cpu_log, net_log >>
reports == << mpath_out, tables >>
gatherer == << queue, entity, attempt, chan, workers, old_workers, written,
              fetch_log >>
extra == << reports, gatherer >>
converter == << epoch, raw, dat >>
replay == << stream, run_no, first_run, emitted >>
later == << converter, replay >>
vars ==
    << config, status, loopvars, pc, parsed, metrics, logs, extra, later >>

Kinds == { "DISK", "CPU", "MEM", "NET" }

\* the runs: a front-end and the kind of capture it is given
Runs ==
    { <<"playback_disk", "DISK">>, <<"playback_cpu", "CPU">>,
      <<"playback_mem", "MEM">>, <<"playback_net", "NET">>,
      <<"run_live_disk", "DISK">> }
    \cup { <<"analyze", k>> : k \in Kinds }

\* the --from / --to windows given to playback_disk
Windows == { <<None, None>>, <<Some(MaxTs), None>>, <<None, Some(1)>> }

\* the locals of an iteration: the parsed record, the prior it was paired
\* with and the metric row it emitted, each an Option
Iter(cur, prior, row) == [cur |-> cur, prior |-> prior, row |-> row]
NoIter == Iter(None, None, None)

\* a multipath group: its name and the dev_name of its paths
MpathGroup(name, paths) == [name |-> name, paths |-> paths]
\* the lists of groups given to report_mpath_stats
DeviceLists ==
    { << MpathGroup("mpatha", << sda, sdb >>), MpathGroup("mpathb", << sdb >>) >>,
      << MpathGroup("mpathb", << sdb >>), MpathGroup("mpathc", <<>>) >> }

InitWith(runs, rows) ==
    /\ \E r \in runs : tool = r[1] /\ capture = r[2]
    /\ file_rows = rows
    /\ devices \in IF tool = "report_mpath_stats" THEN DeviceLists ELSE { <<>> }
    /\ mpath_out = <<>>
    /\ tables = EmptyMap
    /\ queue = <<>> /\ entity = None /\ attempt = 0 /\ chan = None
    /\ workers = {} /\ old_workers = 0 /\ written = {}
    /\ fetch_log = EmptyMap
    /\ epoch = None /\ raw = None /\ dat = <<>>
    /\ stream = <<>> /\ run_no = 1 /\ first_run = None /\ emitted = <<>>
    /\ overflow_checks \in BOOLEAN
    /\ status = "running"
    /\ \E w \in IF tool = "playback_disk" THEN Windows ELSE { <<None, None>> } :
            from_sec = w[1] /\ to_sec = w[2]
    /\ interval \in IF tool = "run_live_disk" THEN 0..MaxInterval ELSE { 0 }
    /\ device_filter \in IF tool = "run_live_disk"
                         THEN { None, Some(sda) } ELSE { None }
    /\ line = None
    /\ prev = IF tool = "playback_cpu" THEN None ELSE EmptyMap
    /\ printed_header = FALSE
    /\ no_data = FALSE
    /\ iter = NoIter
    /\ pc = IF tool = "run_gather" THEN "pass" ELSE "parse"
    /\ per_device = EmptyMap /\ cpu_vec = <<>> /\ mem_vec = <<>>
    /\ per_net = EmptyMap
    /\ disk_metrics = EmptyMap /\ cpu_metrics = <<>> /\ mem_metrics = <<>>
    /\ net_metrics = EmptyMap
    /\ disk_log = EmptyMap /\ cpu_log = <<>> /\ net_log = EmptyMap

Init == InitWith(Runs, MaxRows)

\* what one iteration of a playback loop leaves behind
Step(p, h, st, it) == [prev |-> p, printed_header |-> h, status |-> st, iter |-> it]
\* `continue` before anything was parsed or stored
Skip == Step(prev, printed_header, "running", NoIter)

\* reader.lines(): the line a read loop is given and the row it prints for
\* it; a second run over a capture is given the lines of the first, in order
Feed(l, row) ==
    IF capture # "REPLAY" THEN UNCHANGED replay
    ELSE /\ Len(emitted) < MaxStream
         /\ run_no = 2 =>
               /\ Len(emitted) < Len(stream)
               /\ l = stream[Len(emitted) + 1]
         /\ stream' = IF run_no = 1 THEN Append(stream, l) ELSE stream
         /\ emitted' = Append(emitted, row)
         /\ UNCHANGED << run_no, first_run >>
\* the read loop ends at the end of the file
AtEof == (capture = "REPLAY" /\ run_no = 2) => Len(emitted) = Len(stream)

\* ------------------------------------------------------------ playback_disk
\* the --from / --to filter: TRUE when the row is left out
OutsideWindow(ts) ==
    \/ IsSome(from_sec) /\ SecsSinceMidnight(ts) < Unwrap(from_sec)
    \/ IsSome(to_sec) /\ SecsSinceMidnight(ts) > Unwrap(to_sec)

\* the body of the read loop of playback_disk for one line
PlaybackDiskStep(l) ==
    IF l.typ = "#" \/ l.typ # "DISK" THEN Skip
    ELSE
    LET ts == TsOr0(l.cols)
        parsed_stat == from_csv_fields(Rest(l.cols, 1))
    IN  IF IsNone(parsed_stat) THEN Skip
        ELSE
        LET stat == Unwrap(parsed_stat)
            key == DiskKey(stat)
            cur == [ts |-> ts, stat |-> stat]
        IN  IF key \in DOMAIN prev
            THEN LET last == prev[key]
                     dt == saturating_sub(ts, last.ts)
                     it == Iter(Some(cur), Some(last), None)
                 IN  IF dt = 0
                     THEN Step(prev, printed_header, "running", it)
                     ELSE IF overflow_checks
                             /\ DiskRowOverflows(stat, last.stat)
                     THEN Step(prev, printed_header, "panicked", it)
                     ELSE IF OutsideWindow(ts)
                     THEN Step(prev, printed_header, "running", it)
                     ELSE Step(Insert(prev, key, cur), TRUE, "running",
                               Iter(Some(cur), Some(last),
                                    Some(PlaybackDiskRow(ts, stat, last.ts,
                                                         last.stat))))
            ELSE Step(Insert(prev, key, cur), printed_header, "running",
                      Iter(Some(cur), None, None))

PlaybackLoop(l, step) ==
    /\ status = "running"
    /\ l \in LinesOf(capture)
    /\ line' = Some(l)
    /\ prev' = step.prev
    /\ printed_header' = step.printed_header
    /\ status' = step.status
    /\ iter' = step.iter
    /\ Feed(l, step.iter.row)
    /\ UNCHANGED << config, converter, extra, no_data, pc, parsed, metrics,
                    logs >>

PlaybackDiskLine ==
    /\ tool = "playback_disk"
    /\ \E l \in LinesOf(capture) : PlaybackLoop(l, PlaybackDiskStep(l))

\* ------------------------------------------------------------ playback_cpu
\* the loop body without the skip of a zero total
PlaybackCpuStepNoZeroGuard(l) ==
    IF l.typ = "#" \/ l.typ # "CPU" \/ 1 + Len(l.cols) < 13 THEN Skip
    ELSE
    LET cur == PlaybackCpuParse(l.cols)
        stored == Some([ts |-> cur.ts, vals |-> cur.vals, guest |-> cur.guest])
    IN  IF Len(cur.vals) >= 8
        THEN IF IsSome(prev)
             THEN LET last == Unwrap(prev)
                      dt == saturating_sub(cur.ts, last.ts)
                      it == Iter(Some(cur), Some(last), None)
                  IN  IF dt = 0
                      THEN Step(stored, printed_header, "running", it)
                      ELSE IF overflow_checks /\ PlaybackCpuOverflows(cur, last)
                      THEN Step(prev, printed_header, "panicked", it)
                      ELSE Step(stored, TRUE, "running",
                                Iter(Some(cur), Some(last),
                                     Some(PlaybackCpuRow(cur, last))))
             ELSE Step(stored, printed_header, "running",
                       Iter(Some(cur), None, None))
        ELSE Skip
\* the body of the read loop of playback_cpu for one line
PlaybackCpuStep(l) ==
    IF l.typ = "#" \/ l.typ # "CPU" \/ 1 + Len(l.cols) < 13 THEN Skip
    ELSE
    LET cur == PlaybackCpuParse(l.cols)
        stored == Some([ts |-> cur.ts, vals |-> cur.vals, guest |-> cur.guest])
    IN  IF Len(cur.vals) >= 8
        THEN IF IsSome(prev)
             THEN LET last == Unwrap(prev)
                      dt == saturating_sub(cur.ts, last.ts)
                      it == Iter(Some(cur), Some(last), None)
                  IN  IF dt = 0
                      THEN Step(stored, printed_header, "running", it)
                      ELSE IF overflow_checks /\ PlaybackCpuOverflows(cur, last)
                      THEN Step(prev, printed_header, "panicked", it)
                      ELSE IF PlaybackCpuTotal(cur, last) = 0
                      THEN Step(stored, printed_header, "running", it)
                      ELSE Step(stored, TRUE, "running",
                                Iter(Some(cur), Some(last),
                                     Some(PlaybackCpuRow(cur, last))))
             ELSE Step(stored, printed_header, "running",
                       Iter(Some(cur), None, None))
        ELSE Skip

PlaybackCpuLine ==
    /\ tool = "playback_cpu"
    /\ \E l \in LinesOf(capture) : PlaybackLoop(l, PlaybackCpuStep(l))

\* ------------------------------------------------------------ playback_mem
\* the body of the read loop of playback_mem for one line
PlaybackMemStep(l) ==
    IF l.typ = "#" \/ l.typ # "MEM" THEN Skip
    ELSE
    LET ts == TsOr0(l.cols)
        vals == MemVals(MemKeys, Rest(l.cols, 1))
    IN  Step(prev, TRUE, "running",
             Iter(Some([ts |-> ts, vals |-> vals]), None,
                  Some(MemRow(ts, vals))))

PlaybackMemLine ==
    /\ tool = "playback_mem"
    /\ \E l \in LinesOf(capture) : PlaybackLoop(l, PlaybackMemStep(l))

\* ------------------------------------------------------------ playback_net
\* the body of the read loop of playback_net for one line
PlaybackNetStep(l) ==
    IF l.typ = "#" \/ l.typ # "NET" THEN Skip
    ELSE
    LET ts == TsOr0(l.cols)
        iface == UnwrapOr(Col(l.cols, 2), unknown)
        fields == PlaybackNetFields(l.cols)
        cur == [ts |-> ts, vals |-> fields]
    IN  IF Len(fields) < 8 THEN Skip
        ELSE IF iface \in DOMAIN prev
        THEN LET last == prev[iface]
                 dt == saturating_sub(ts, last.ts)
                 it == Iter(Some(cur), Some(last), None)
             IN  IF dt = 0
                 THEN Step(prev, printed_header, "running", it)
                 ELSE IF overflow_checks
                         /\ PlaybackNetOverflows(fields, last.vals)
                 THEN Step(prev, printed_header, "panicked", it)
                 ELSE Step(Insert(prev, iface, cur), TRUE, "running",
                           Iter(Some(cur), Some(last),
                                Some(PlaybackNetRow(iface, ts, fields,
                                                    last.ts, last.vals))))
        ELSE Step(Insert(prev, iface, cur), printed_header, "running",
                  Iter(Some(cur), None, None))

PlaybackNetLine ==
    /\ tool = "playback_net"
    /\ \E l \in LinesOf(capture) : PlaybackLoop(l, PlaybackNetStep(l))

\* end of file of a playback function: the "No ... data found." message when
\* no row was printed, then Ok(())
PlaybackEof ==
    /\ tool \in { "playback_disk", "playback_cpu", "playback_mem",
                  "playback_net" }
    /\ status = "running"
    /\ AtEof
    /\ line' = None
    /\ no_data' = ~printed_header
    /\ status' = "done"
    /\ UNCHANGED << config, later, extra, prev, printed_header, iter, pc, parsed,
                    metrics, logs >>

\* ------------------------------------------------------------ analyze
\* m.entry(k).or_default().push(x)
Push(m, k, x) == Insert(m, k, Append(GetOr(m, k, <<>>), x))

\* rows held by the vectors of Step 1
TotalRows ==
    LET RECURSIVE Count(_, _)
        Count(m, ks) ==
            IF ks = {} THEN 0
            ELSE LET k == CHOOSE x \in ks : TRUE
                 IN Len(m[k]) + Count(m, ks \ {k})
    IN Count(per_device, DOMAIN per_device) + Len(cpu_vec) + Len(mem_vec)
       + Count(per_net, DOMAIN per_net)

\* cols.next().and_then(|v| v.parse::<u64>().ok()).unwrap_or(0)
NetCounter(cols, i) ==
    IF IsSome(Col(cols, i)) THEN UnwrapOr(ParseU64(cols[i]), 0) ELSE 0

\* the NetStat analyze builds from the columns after the interface name
AnalyzeNetStat(cols) ==
    [ rx_bytes |-> NetCounter(cols, 3), tx_bytes |-> NetCounter(cols, 4),
      rx_pkts |-> NetCounter(cols, 5), tx_pkts |-> NetCounter(cols, 6),
      rx_errs |-> NetCounter(cols, 7), tx_errs |-> NetCounter(cols, 8),
      rx_drop |-> NetCounter(cols, 9), tx_drop |-> NetCounter(cols, 10) ]

\* what Step 1 of analyze does with one line: the vectors after it, and
\* whether `cols.next().unwrap()` panicked
Parsed(pd, cv, mv, pn, st) ==
    [per_device |-> pd, cpu_vec |-> cv, mem_vec |-> mv, per_net |-> pn,
     status |-> st]
AnalyzeParse(l) ==
    LET same == Parsed(per_device, cpu_vec, mem_vec, per_net, "running")
        panic == Parsed(per_device, cpu_vec, mem_vec, per_net, "panicked")
        ts == UnwrapOr(ParseU64(l.cols[1]), 0)
    IN  IF l.typ = "#" THEN same
        ELSE IF l.typ \notin Kinds THEN same
        ELSE IF IsNone(Col(l.cols, 1)) THEN panic
        ELSE IF l.typ = "DISK"
        THEN LET parsed_stat == parse_disk_from_fields(Rest(l.cols, 1))
             IN  IF IsNone(parsed_stat) THEN same
                 ELSE Parsed(Push(per_device, Unwrap(parsed_stat).name,
                                  [ts |-> ts, stat |-> Unwrap(parsed_stat)]),
                             cpu_vec, mem_vec, per_net, "running")
        ELSE IF l.typ = "CPU"
        THEN LET values == ParseAll(Rest(l.cols, 1))
             IN  IF Len(values) >= 10
                 THEN Parsed(per_device,
                             Append(cpu_vec,
                                    [ts |-> ts, vals |-> values,
                                     running |-> Some(values[Len(values) - 1]),
                                     blocked |-> Some(values[Len(values)])]),
                             mem_vec, per_net, "running")
                 ELSE same
        ELSE IF l.typ = "MEM"
        THEN Parsed(per_device, cpu_vec,
                    Append(mem_vec,
                           [ts |-> ts,
                            vals |-> MemVals(MemKeys, Rest(l.cols, 1))]),
                    per_net, "running")
        ELSE Parsed(per_device, cpu_vec, mem_vec,
                    Push(per_net, UnwrapOr(Col(l.cols, 2), empty),
                         [ts |-> ts, stat |-> AnalyzeNetStat(l.cols)]),
                    "running")

\* Step 1: the read loop, one line
AnalyzeLine ==
    /\ tool = "analyze" /\ status = "running" /\ pc = "parse"
    /\ TotalRows < file_rows
    /\ \E l \in LinesOf(capture) :
         LET p == AnalyzeParse(l)
         IN  /\ line' = Some(l)
             /\ per_device' = p.per_device
             /\ cpu_vec' = p.cpu_vec
             /\ mem_vec' = p.mem_vec
             /\ per_net' = p.per_net
             /\ status' = p.status
             /\ Feed(l, None)
    /\ UNCHANGED << config, converter, extra, prev, printed_header, no_data, iter, pc,
                    metrics, logs >>

\* end of the capture file
AnalyzeEof ==
    /\ tool = "analyze" /\ status = "running" /\ pc = "parse"
    /\ AtEof
    /\ line' = None
    /\ pc' = "disk"
    /\ UNCHANGED << config, later, extra, status, prev, printed_header, no_data, iter,
                    parsed, metrics, logs >>

\* the IntervalDiskMetrics of one (prior, current) pair with dt > 0
AnalyzeDiskRow(ts, stat, last_ts, last_stat) ==
    LET dt == saturating_sub(ts, last_ts)
        d_reads == saturating_sub(stat.reads, last_stat.reads)
        d_writes == saturating_sub(stat.writes, last_stat.writes)
        d_sectors_read ==
            saturating_sub(stat.sectors_read, last_stat.sectors_read)
        d_sectors_written ==
            saturating_sub(stat.sectors_written, last_stat.sectors_written)
        delta_weighted_io_time_ms ==
            saturating_sub(stat.weighted_io_time_ms,
                           last_stat.weighted_io_time_ms)
        delta_io_time_ms ==
            saturating_sub(stat.io_time_ms, last_stat.io_time_ms)
        total_ios == WrapAdd(d_reads, d_writes)
        rps == FDiv(F64(d_reads), F64(dt))
        wps == FDiv(F64(d_writes), F64(dt))
        rd_kbs == FDiv(FDiv(FMul(F64(d_sectors_read), F64(512)), F64(1024)),
                       F64(dt))
        wr_kbs == FDiv(FDiv(FMul(F64(d_sectors_written), F64(512)),
                            F64(1024)), F64(dt))
        d_discards == saturating_sub(stat.discards, last_stat.discards)
        d_discards_merged ==
            saturating_sub(stat.discards_merged, last_stat.discards_merged)
        d_sectors_discarded ==
            saturating_sub(stat.sectors_discarded,
                           last_stat.sectors_discarded)
        d_discard_time_ms ==
            saturating_sub(stat.discard_time_ms, last_stat.discard_time_ms)
    IN [ ts |-> ts, rps |-> rps, wps |-> wps, io_sec |-> FAdd(rps, wps),
         rd_kbs |-> rd_kbs, wr_kbs |-> wr_kbs, kb_sec |-> FAdd(rd_kbs, wr_kbs),
         avg_queue_depth |->
             FDiv(F64(delta_weighted_io_time_ms), FMul(F64(dt), F64(1000))),
         qlen |-> Ratio(delta_weighted_io_time_ms, delta_io_time_ms),
         svctim |-> Ratio(delta_io_time_ms, total_ios),
         await_rd |->
             Ratio(saturating_sub(stat.read_time_ms, last_stat.read_time_ms), d_reads),
         await_wr |->
             Ratio(saturating_sub(stat.write_time_ms, last_stat.write_time_ms), d_writes),
         discards_s |-> FDiv(F64(d_discards), F64(dt)),
         discards_merged_s |-> FDiv(F64(d_discards_merged), F64(dt)),
         sectors_discarded_s |-> FDiv(F64(d_sectors_discarded), F64(dt)),
         await_discard_ms |->
             Ratio(d_discard_time_ms, d_discards),
         discard_kbs |->
             FDiv(FMul(F64(d_sectors_discarded), FDiv(F64(1), F64(2))),
                  F64(dt)) ]

\* the result of a metric loop: the series, the iterations executed, and
\* whether the loop panicked
Loop(out, log, panicked) == [out |-> out, log |-> log, panicked |-> panicked]

\* the disk loop of Step 2 over the rows of one device, from row i on
RECURSIVE AnalyzeDiskLoop(_, _, _, _, _)
AnalyzeDiskLoop(rows, i, prv, out, log) ==
    IF i > Len(rows) THEN Loop(out, log, FALSE)
    ELSE
    LET cur == rows[i]
    IN  IF IsSome(prv)
        THEN LET last == Unwrap(prv)
                 dt == saturating_sub(cur.ts, last.ts)
                 it == Iter(Some(cur), prv, None)
             IN  IF dt = 0
                 THEN AnalyzeDiskLoop(rows, i + 1, Some(cur), out,
                                      Append(log, it))
                 ELSE IF overflow_checks /\ DiskRowOverflows(cur.stat, last.stat)
                 THEN Loop(out, Append(log, it), TRUE)
                 ELSE LET row == AnalyzeDiskRow(cur.ts, cur.stat, last.ts,
                                                last.stat)
                      IN AnalyzeDiskLoop(rows, i + 1, Some(cur),
                                         Append(out, row),
                                         Append(log,
                                                Iter(Some(cur), prv, Some(row))))
        ELSE AnalyzeDiskLoop(rows, i + 1, Some(cur), out,
                             Append(log, Iter(Some(cur), None, None)))

\* the series map keeps the devices whose series is not empty
NonEmptySeries(loops) ==
    [k \in { x \in DOMAIN loops : Len(loops[x].out) > 0 } |-> loops[k].out]

\* Step 2, disk metrics: the loop over per_device
AnalyzeDiskMetrics ==
    /\ tool = "analyze" /\ status = "running" /\ pc = "disk"
    /\ LET loops == [dev \in DOMAIN per_device |->
                        AnalyzeDiskLoop(per_device[dev], 1, None, <<>>, <<>>)]
       IN  /\ disk_log' = [dev \in DOMAIN loops |-> loops[dev].log]
           /\ IF \E dev \in DOMAIN loops : loops[dev].panicked
              THEN status' = "panicked" /\ UNCHANGED << pc, disk_metrics >>
              ELSE /\ disk_metrics' = NonEmptySeries(loops)
                   /\ pc' = "cpu"
                   /\ UNCHANGED status
    /\ UNCHANGED << config, later, extra, loopvars, parsed, cpu_metrics, mem_metrics,
                    net_metrics, cpu_log, net_log >>

\* the CPU arithmetic of analyze that a build with overflow checks aborts on
AnalyzeCpuOverflows(vals, last_vals) ==
    \/ ZipSubOverflows(vals, last_vals)
    \/ SumOverflows(ZipSub(vals, last_vals))

\* vals.iter().zip(last_vals.iter()).map(|(v, lv)| v - lv).sum::<u64>()
AnalyzeCpuTotal(vals, last_vals) == SumU64(ZipSub(vals, last_vals))

\* the CpuMetrics of one (prior, current) pair with total > 0
AnalyzeCpuRow(cur, last) ==
    LET total == F64(AnalyzeCpuTotal(cur.vals, last.vals))
        pct(i) == FMul(FDiv(F64(WrapSub(cur.vals[i], last.vals[i])), total),
                       Hundred)
    IN [ ts |-> cur.ts, user |-> FAdd(pct(1), pct(2)), sys |-> pct(3),
         idle |-> pct(4), iowait |-> pct(5), guest |-> pct(9),
         running |-> cur.running, blocked |-> cur.blocked ]

\* the CPU loop of Step 2, from row i on
RECURSIVE AnalyzeCpuLoop(_, _, _, _, _)
AnalyzeCpuLoop(rows, i, prv, out, log) ==
    IF i > Len(rows) THEN Loop(out, log, FALSE)
    ELSE
    LET cur == rows[i]
    IN  IF IsSome(prv)
        THEN LET last == Unwrap(prv)
                 it == Iter(Some(cur), prv, None)
             IN  IF overflow_checks /\ AnalyzeCpuOverflows(cur.vals, last.vals)
                 THEN Loop(out, Append(log, it), TRUE)
                 ELSE IF AnalyzeCpuTotal(cur.vals, last.vals) = 0
                 THEN AnalyzeCpuLoop(rows, i + 1, Some(cur), out,
                                     Append(log, it))
                 ELSE LET row == AnalyzeCpuRow(cur, last)
                      IN AnalyzeCpuLoop(rows, i + 1, Some(cur),
                                        Append(out, row),
                                        Append(log,
                                               Iter(Some(cur), prv, Some(row))))
        ELSE AnalyzeCpuLoop(rows, i + 1, Some(cur), out,
                            Append(log, Iter(Some(cur), None, None)))

\* Step 2, CPU metrics
AnalyzeCpuMetrics ==
    /\ tool = "analyze" /\ status = "running" /\ pc = "cpu"
    /\ LET loop == AnalyzeCpuLoop(cpu_vec, 1, None, <<>>, <<>>)
       IN  /\ cpu_log' = loop.log
           /\ IF loop.panicked
              THEN status' = "panicked" /\ UNCHANGED << pc, cpu_metrics >>
              ELSE /\ cpu_metrics' = loop.out
                   /\ pc' = "mem"
                   /\ UNCHANGED status
    /\ UNCHANGED << config, later, extra, loopvars, parsed, disk_metrics, mem_metrics,
                    net_metrics, disk_log, net_log >>

\* Step 2, memory metrics
AnalyzeMemMetrics ==
    /\ tool = "analyze" /\ status = "running" /\ pc = "mem"
    /\ mem_metrics' = [i \in 1..Len(mem_vec) |->
                          MemRow(mem_vec[i].ts, mem_vec[i].vals)]
    /\ pc' = "net"
    /\ UNCHANGED << config, later, extra, status, loopvars, parsed, disk_metrics,
                    cpu_metrics, net_metrics, logs >>

NetStatFields ==
    << "rx_bytes", "tx_bytes", "rx_pkts", "tx_pkts", "rx_errs", "tx_errs",
       "rx_drop", "tx_drop" >>

\* the IntervalNetMetrics of one (prior, current) pair with dt > 0
AnalyzeNetRow(ts, stat, last_ts, last_stat) ==
    LET dt == saturating_sub(ts, last_ts)
        rate(f) == FDiv(F64(saturating_sub(stat[f], last_stat[f])), F64(dt))
    IN [ ts |-> ts, rx_bytes |-> rate("rx_bytes"),
         tx_bytes |-> rate("tx_bytes"), rx_pkts |-> rate("rx_pkts"),
         tx_pkts |-> rate("tx_pkts"), rx_errs |-> rate("rx_errs"),
         tx_errs |-> rate("tx_errs"), rx_drop |-> rate("rx_drop"),
         tx_drop |-> rate("tx_drop") ]

\* the net loop of Step 2 over the rows of one interface, from row i on
RECURSIVE AnalyzeNetLoop(_, _, _, _, _)
AnalyzeNetLoop(rows, i, prv, out, log) ==
    IF i > Len(rows) THEN Loop(out, log, FALSE)
    ELSE
    LET cur == rows[i]
    IN  IF IsSome(prv)
        THEN LET last == Unwrap(prv)
                 dt == saturating_sub(cur.ts, last.ts)
             IN  IF dt = 0
                 THEN AnalyzeNetLoop(rows, i + 1, Some(cur), out,
                                     Append(log, Iter(Some(cur), prv, None)))
                 ELSE LET row == AnalyzeNetRow(cur.ts, cur.stat, last.ts,
                                               last.stat)
                      IN AnalyzeNetLoop(rows, i + 1, Some(cur),
                                        Append(out, row),
                                        Append(log,
                                               Iter(Some(cur), prv, Some(row))))
        ELSE AnalyzeNetLoop(rows, i + 1, Some(cur), out,
                            Append(log, Iter(Some(cur), None, None)))

\* Step 2, net metrics
AnalyzeNetMetrics ==
    /\ tool = "analyze" /\ status = "running" /\ pc = "net"
    /\ LET loops == [iface \in DOMAIN per_net |->
                        AnalyzeNetLoop(per_net[iface], 1, None, <<>>, <<>>)]
       IN  /\ net_log' = [iface \in DOMAIN loops |-> loops[iface].log]
           /\ net_metrics' = NonEmptySeries(loops)
    /\ pc' = "tables"
    /\ UNCHANGED << config, later, extra, status, loopvars, parsed, disk_metrics,
                    cpu_metrics, mem_metrics, disk_log, cpu_log >>

\* ------------------------------------------------- Step 3.5, top 50 tables
\* the keys of disk_metric_defs
DiskMetricKeys ==
    { "rps", "wps", "io_sec", "rd_kbs", "wr_kbs", "kb_sec", "avg_queue_depth",
      "qlen", "svctim", "await_rd", "await_wr", "discards_s",
      "discards_merged_s", "sectors_discarded_s", "await_discard_ms",
      "discard_kbs" }

\* f64::max: the larger operand, a NaN operand is ignored
FMax(a, b) ==
    IF a = NaN THEN b ELSE IF b = NaN THEN a ELSE IF FGt(b, a) THEN b ELSE a

\* .sum::<f64>()
RECURSIVE FSum(_)
FSum(seq) == IF Len(seq) = 0 THEN Zero ELSE FAdd(Head(seq), FSum(Tail(seq)))

\* mean of a series by accessor
mean(data, key) ==
    IF Len(data) = 0 THEN Zero
    ELSE FDiv(FSum([i \in 1..Len(data) |-> data[i][key]]), F64(Len(data)))

\* max of a series by accessor: a fold from 0.0
RECURSIVE MaxFold(_, _, _, _)
MaxFold(data, key, i, acc) ==
    IF i > Len(data) THEN acc
    ELSE MaxFold(data, key, i + 1, FMax(acc, data[i][key]))
max(data, key) == MaxFold(data, key, 1, Zero)

\* the orders in which a HashMap may hand out its keys
KeyOrders(m) ==
    { order \in [1..Cardinality(DOMAIN m) -> DOMAIN m] :
        \A i, j \in DOMAIN order : i # j => order[i] # order[j] }

\* the entries of metrics_summary for one metric: (device, avg, max) for the
\* devices in the order the map hands them out
SummaryEntries(map, order, key) ==
    [i \in DOMAIN order |->
        [ dev |-> order[i],
          avg |-> mean(map[order[i]], key),
          max |-> max(map[order[i]], key) ]]

\* the entry is put in front of the entries with a larger value
InsertAscending(sorted, e, by) ==
    LET before == SelectSeq(sorted, LAMBDA x : FGt(e[by], x[by]))
        after == SelectSeq(sorted, LAMBDA x : ~FGt(e[by], x[by]))
    IN  before \o << e >> \o after
\* sort_by(|a, b| b.partial_cmp(&a)): the entry goes behind the entries that
\* are not smaller, so equal entries keep their order
InsertDescending(sorted, e, by) ==
    LET before == SelectSeq(sorted, LAMBDA x : ~FGt(e[by], x[by]))
        after == SelectSeq(sorted, LAMBDA x : FGt(e[by], x[by]))
    IN  before \o << e >> \o after

RECURSIVE SortBy(_, _, _, _)
SortBy(entries, by, i, sorted) ==
    IF i > Len(entries) THEN sorted
    ELSE SortBy(entries, by, i + 1, InsertDescending(sorted, entries[i], by))

\* partial_cmp(..).unwrap() fails when a NaN is compared
SortPanics(entries, by) ==
    Len(entries) > 1 /\ \E i \in DOMAIN entries : entries[i][by] = NaN

\* iter().take(n)
Take(seq, n) == SubSeq(seq, 1, IF Len(seq) < n THEN Len(seq) ELSE n)

\* the two tables of every metric, for the devices in the order the map
\* handed them out: sorted by average and by peak, the first 50 of each
TopTables(map, order) ==
    IF Len(order) = 0 THEN EmptyMap
    ELSE [key \in DiskMetricKeys |->
            [ avg |-> Take(SortBy(SummaryEntries(map, order, key), "avg", 1,
                                  <<>>), TopN),
              peak |-> Take(SortBy(SummaryEntries(map, order, key), "max", 1,
                                   <<>>), TopN) ]]

\* Step 3.5: the average and the peak table of every metric
AnalyzeTopTables ==
    /\ tool = "analyze" /\ status = "running" /\ pc = "tables"
    /\ \E order \in KeyOrders(disk_metrics) :
         LET entries(key) == SummaryEntries(disk_metrics, order, key)
         IN  IF \E key \in DiskMetricKeys :
                    SortPanics(entries(key), "avg")
                    \/ SortPanics(entries(key), "max")
             THEN status' = "panicked" /\ UNCHANGED tables
             ELSE /\ tables' = TopTables(disk_metrics, order)
                  /\ status' = "done"
    /\ pc' = "done"
    /\ UNCHANGED << config, later, mpath_out, gatherer, loopvars, parsed, metrics,
                    logs >>

\* ------------------------------------------------------------ run_live_disk
\* the devices /proc/diskstats may list in a polling pass
LiveDevs == { sda, sdb }
\* the columns of a /proc/diskstats line
ProcDiskCols(name, c, t) == Rest(DiskCols(0, <<8, 0, name>>, c, t), 1)

\* livestats_view's DiskStat::from_line
LiveFromLine(cols) ==
    IF Len(cols) < 14 THEN None
    ELSE IF \E i \in { 4, 8, 6, 10, 7, 11, 13, 14 } : IsNone(ParseU64(cols[i]))
         THEN None
    ELSE Some([name |-> cols[3], reads |-> cols[4], writes |-> cols[8],
               sectors_read |-> cols[6], sectors_written |-> cols[10],
               read_time_ms |-> cols[7], write_time_ms |-> cols[11],
               io_time_ms |-> cols[13], weighted_io_time_ms |-> cols[14]])

\* the name prefixes the live view keeps, and the -d substring filter
LiveWanted(name) == name \in { sda, sdb }
LiveFiltered(name) == IsSome(device_filter) /\ name # Unwrap(device_filter)

\* the row run_live_disk prints for a device seen in two consecutive passes
LiveDiskRow(stat, prev_stat) ==
    LET dt == F64(interval)
        d_reads == saturating_sub(stat.reads, prev_stat.reads)
        d_writes == saturating_sub(stat.writes, prev_stat.writes)
        d_sectors_read ==
            saturating_sub(stat.sectors_read, prev_stat.sectors_read)
        d_sectors_written ==
            saturating_sub(stat.sectors_written, prev_stat.sectors_written)
        delta_io_time_ms ==
            saturating_sub(stat.io_time_ms, prev_stat.io_time_ms)
        delta_weighted_io_time_ms ==
            saturating_sub(stat.weighted_io_time_ms,
                           prev_stat.weighted_io_time_ms)
        r_s == FDiv(F64(d_reads), dt)
        w_s == FDiv(F64(d_writes), dt)
        rd_kbs == FDiv(FDiv(FMul(F64(d_sectors_read), F64(512)), F64(1024)), dt)
        wr_kbs ==
            FDiv(FDiv(FMul(F64(d_sectors_written), F64(512)), F64(1024)), dt)
    IN [ dev |-> stat.name, r_s |-> r_s, w_s |-> w_s,
         rd_kbs |-> rd_kbs, wr_kbs |-> wr_kbs,
         qlen |-> Ratio(delta_weighted_io_time_ms, delta_io_time_ms),
         await_rd_ms |->
             Ratio(saturating_sub(stat.read_time_ms, prev_stat.read_time_ms), d_reads),
         await_wr_ms |->
             Ratio(saturating_sub(stat.write_time_ms, prev_stat.write_time_ms), d_writes),
         total_kb |-> FAdd(rd_kbs, wr_kbs),
         total_iops |-> FAdd(r_s, w_s) ]

\* the map `curr` of one pass over the /proc/diskstats lines in `proc`
\* (device -> Option of its counters)
LiveCurr(proc) ==
    LET stat(d) == LiveFromLine(ProcDiskCols(d, Unwrap(proc[d])[1],
                                             Unwrap(proc[d])[2]))
    IN [d \in { x \in LiveDevs : /\ IsSome(proc[x])
                                 /\ LiveWanted(x)
                                 /\ ~LiveFiltered(x) } |-> Unwrap(stat(d))]

\* one pass of the loop of run_live_disk: read, print the rows of the devices
\* also seen in the previous pass, prev = curr, sleep.  The header line and
\* its output_count are not modelled.
LiveDiskPass ==
    /\ tool = "run_live_disk" /\ status = "running"
    /\ \E proc \in [LiveDevs -> { None } \cup { Some(ct) : ct \in DiskCounters }] :
         LET curr == LiveCurr(proc)
             rows == [d \in DOMAIN curr \cap DOMAIN prev |->
                         LiveDiskRow(curr[d], prev[d])]
         IN  /\ iter' = Iter(Some(curr), Some(prev), Some(rows))
             /\ prev' = curr
    /\ printed_header' = TRUE
    /\ UNCHANGED << config, later, extra, status, line, no_data, pc, parsed, metrics, logs >>

\* ------------------------------------------------------- report_mpath_stats
\* the IntervalDiskMetrics get_disk_metrics_map builds for one pair, dt > 0
GetDiskMetricsRow(ts, stat, last_ts, last_stat) ==
    LET dt == saturating_sub(ts, last_ts)
        d_reads == saturating_sub(stat.reads, last_stat.reads)
        d_writes == saturating_sub(stat.writes, last_stat.writes)
        d_sectors_read ==
            saturating_sub(stat.sectors_read, last_stat.sectors_read)
        d_sectors_written ==
            saturating_sub(stat.sectors_written, last_stat.sectors_written)
        delta_weighted_io_time_ms ==
            saturating_sub(stat.weighted_io_time_ms,
                           last_stat.weighted_io_time_ms)
        delta_io_time_ms ==
            saturating_sub(stat.io_time_ms, last_stat.io_time_ms)
        rps == FDiv(F64(d_reads), F64(dt))
        wps == FDiv(F64(d_writes), F64(dt))
        rd_kbs == FDiv(FDiv(FMul(F64(d_sectors_read), F64(512)), F64(1024)),
                       F64(dt))
        wr_kbs == FDiv(FDiv(FMul(F64(d_sectors_written), F64(512)),
                            F64(1024)), F64(dt))
    IN [ ts |-> ts, rps |-> rps, wps |-> wps, io_sec |-> FAdd(rps, wps),
         rd_kbs |-> rd_kbs, wr_kbs |-> wr_kbs, kb_sec |-> FAdd(rd_kbs, wr_kbs),
         avg_queue_depth |->
             FDiv(F64(delta_weighted_io_time_ms), FMul(F64(dt), F64(1000))),
         qlen |-> Ratio(delta_weighted_io_time_ms, delta_io_time_ms),
         svctim |-> Zero, await_rd |-> Zero, await_wr |-> Zero,
         discards_s |-> Zero, discards_merged_s |-> Zero,
         sectors_discarded_s |-> Zero, await_discard_ms |-> Zero,
         discard_kbs |-> Zero ]

\* the conversion loop of get_disk_metrics_map over the rows of one device
RECURSIVE GetDiskMetricsLoop(_, _, _, _)
GetDiskMetricsLoop(rows, i, prv, out) ==
    IF i > Len(rows) THEN out
    ELSE
    LET cur == rows[i]
    IN  IF IsSome(prv) /\ saturating_sub(cur.ts, Unwrap(prv).ts) # 0
        THEN GetDiskMetricsLoop(rows, i + 1, Some(cur),
                                Append(out,
                                       GetDiskMetricsRow(cur.ts, cur.stat,
                                                         Unwrap(prv).ts,
                                                         Unwrap(prv).stat)))
        ELSE GetDiskMetricsLoop(rows, i + 1, Some(cur), out)

\* the read loop of get_disk_metrics_map, one line
GetDiskMetricsLine ==
    /\ tool = "report_mpath_stats" /\ status = "running" /\ pc = "parse"
    /\ TotalRows < file_rows
    /\ \E l \in LinesOf(capture) :
         /\ line' = Some(l)
         /\ IF l.typ # "DISK"
            THEN UNCHANGED << per_device, status >>
            ELSE IF IsNone(Col(l.cols, 1))
            THEN status' = "panicked" /\ UNCHANGED per_device
            ELSE LET ts == UnwrapOr(ParseU64(l.cols[1]), 0)
                     parsed_stat == parse_disk_from_fields(Rest(l.cols, 1))
                 IN  /\ per_device' =
                           IF IsNone(parsed_stat) THEN per_device
                           ELSE Push(per_device, Unwrap(parsed_stat).name,
                                     [ts |-> ts, stat |-> Unwrap(parsed_stat)])
                     /\ UNCHANGED status
    /\ UNCHANGED << config, later, extra, prev, printed_header, no_data, iter, pc,
                    cpu_vec, mem_vec, per_net, metrics, logs >>

\* end of file: the map get_disk_metrics_map returns
GetDiskMetricsMap ==
    /\ tool = "report_mpath_stats" /\ status = "running" /\ pc = "parse"
    /\ line' = None
    /\ LET series == [dev \in DOMAIN per_device |->
                         GetDiskMetricsLoop(per_device[dev], 1, None, <<>>)]
       IN disk_metrics' =
              [dev \in { x \in DOMAIN series : Len(series[x]) > 0 } |->
                  series[dev]]
    /\ pc' = "report"
    /\ UNCHANGED << config, later, extra, status, prev, printed_header, no_data,
                    iter, parsed, cpu_metrics, mem_metrics, net_metrics,
                    logs >>

\* (iops_avg, kbs_avg) of a path: the means over its series, (0.0, 0.0) when
\* the map has no series for its dev_name
PathMeans(map, dev_name) ==
    IF dev_name \in DOMAIN map
    THEN LET series == map[dev_name]
             n == F64(IF Len(series) > 1 THEN Len(series) ELSE 1)
         IN [ dev |-> dev_name,
              iops |-> FDiv(FSum([i \in 1..Len(series) |->
                                     FAdd(series[i].rps, series[i].wps)]), n),
              kbs |-> FDiv(FSum([i \in 1..Len(series) |->
                                    FAdd(series[i].rd_kbs, series[i].wr_kbs)]),
                           n) ]
    ELSE [dev |-> dev_name, iops |-> Zero, kbs |-> Zero]

\* every path counts as active
PathAlwaysActive(iops_avg, kbs_avg) == TRUE
\* iops_avg > 0.0 || kbs_avg > 0.0
PathActive(iops_avg, kbs_avg) == FGt(iops_avg, Zero) \/ FGt(kbs_avg, Zero)

\* the per_path vector of a group: its active paths, in the order of the group
PerPath(map, mdev) ==
    SelectSeq([i \in 1..Len(mdev.paths) |-> PathMeans(map, mdev.paths[i])],
              LAMBDA p : PathActive(p.iops, p.kbs))

\* what is printed for one group with a non-empty per_path: the summary row
\* and the path rows
GroupReport(mdev, per_path) ==
    LET mpath_total_iops == FSum([i \in 1..Len(per_path) |-> per_path[i].iops])
        mpath_total_kbs == FSum([i \in 1..Len(per_path) |-> per_path[i].kbs])
    IN [ name |-> mdev.name,
         mpath_total_iops |-> mpath_total_iops,
         mpath_total_kbs |-> mpath_total_kbs,
         paths |->
             [i \in 1..Len(per_path) |->
                 [ dev |-> per_path[i].dev,
                   iops |-> per_path[i].iops,
                   kbs |-> per_path[i].kbs,
                   io_pct |-> IF FGt(mpath_total_iops, Zero)
                              THEN FDiv(FMul(Hundred, per_path[i].iops),
                                        mpath_total_iops)
                              ELSE Zero,
                   kb_pct |-> IF FGt(mpath_total_kbs, Zero)
                              THEN FDiv(FMul(Hundred, per_path[i].kbs),
                                        mpath_total_kbs)
                              ELSE Zero ]] ]

\* the loop over the groups, from group i on
RECURSIVE ReportLoop(_, _, _)
ReportLoop(map, i, out) ==
    IF i > Len(devices) THEN out
    ELSE LET per_path == PerPath(map, devices[i])
         IN  IF Len(per_path) = 0
             THEN ReportLoop(map, i + 1, out)
             ELSE ReportLoop(map, i + 1,
                             Append(out, GroupReport(devices[i], per_path)))

\* the report of report_mpath_stats once the map is there
ReportMpathStats ==
    /\ tool = "report_mpath_stats" /\ status = "running" /\ pc = "report"
    /\ mpath_out' = ReportLoop(disk_metrics, 1, <<>>)
    /\ pc' = "done"
    /\ status' = "done"
    /\ UNCHANGED << config, later, tables, gatherer, loopvars, parsed, metrics,
                    logs >>

\* ------------------------------------------------- procstats_grab run_gather
\* a process (tid = pid) or one of its threads
Entity(pid, tid) == [pid |-> pid, tid |-> tid]
\* the numeric entries of /proc, in the order read_dir hands them out
ProcDir == << 1, 2 >>
\* the entries of /proc/<pid>/task
TaskDir(pid) == IF pid = 1 THEN << 1, 3 >> ELSE << pid >>
\* the threads run_gather visits after the row of the process: id != pid
Threads(pid) ==
    LET tids == SelectSeq(TaskDir(pid), LAMBDA tid : tid # pid)
    IN  [i \in 1..Len(tids) |-> Entity(pid, tids[i])]

\* the retries argument of both timeout_retry calls
Retries == 2

\* a fetch worker: the thread read_with_timeout spawned for one attempt
Worker(e, a) == [ent |-> e, attempt |-> a]

\* what a worker may do with its closure: return Some(info), return None
\* (the entity vanished, a malformed stat line) or panic
Returns == { "info", "none", "panic" }

\* the counter of the workers of earlier passes, n more of them
Older(n) ==
    IF old_workers + n > MaxWorkers THEN MaxWorkers ELSE old_workers + n

\* top of the loop: read_dir("/proc") fails, or the pass starts
GatherPass ==
    /\ tool = "run_gather" /\ status = "running" /\ pc = "pass"
    /\ \/ /\ status' = "failed"
          /\ UNCHANGED << pc, gatherer >>
       \/ /\ queue' = [i \in 1..Len(ProcDir) |->
                           Entity(ProcDir[i], ProcDir[i])]
          /\ written' = {}
          /\ fetch_log' = EmptyMap
          /\ old_workers' = Older(Cardinality(workers))
          /\ workers' = {}
          /\ pc' = "entity"
          /\ UNCHANGED << status, entity, attempt, chan >>
    /\ UNCHANGED << config, later, reports, loopvars, parsed, metrics, logs >>

\* the next entity: timeout_retry is called, its first attempt spawns a worker
GatherEntity ==
    /\ tool = "run_gather" /\ status = "running" /\ pc = "entity"
    /\ queue # <<>>
    /\ entity' = Some(Head(queue))
    /\ queue' = Tail(queue)
    /\ attempt' = 0
    /\ chan' = None
    /\ workers' = workers \cup { Worker(Head(queue), 0) }
    /\ pc' = "await"
    /\ UNCHANGED << config, later, reports, status, old_workers, written, fetch_log,
                    loopvars, parsed, metrics, logs >>

\* a row of the output file: the entity and the attempt it was written for,
\* and the worker whose fetch filled it
Row(e, a, w) == [ent |-> e, attempt |-> a, by |-> w]
\* what a worker leaves in the channel: what its closure returned, or the
\* broken channel left by its panic
Message(w, r) == [by |-> w, ret |-> r]

\* one channel for all the attempts: every worker reaches the waiting loop
HasReceiverShared(w) == pc = "await"
\* read_with_timeout makes a channel of its own: the receiver of a worker is
\* alive while the main loop waits for that very attempt
HasReceiver(w) == pc = "await" /\ w = Worker(Unwrap(entity), attempt)

\* the worker of the current attempt comes back while the main loop waits:
\* it sends what the closure returned and ends, or it panics and drops tx
WorkerReturns ==
    /\ tool = "run_gather" /\ status = "running" /\ pc = "await"
    /\ chan = None
    /\ \E w \in workers :
         /\ HasReceiver(w)
         /\ \E r \in Returns : chan' = Some(Message(w, r))
         /\ workers' = workers \ { w }
    /\ UNCHANGED << config, later, reports, status, pc, queue, entity, attempt,
                    old_workers, written, fetch_log, loopvars, parsed, metrics,
                    logs >>

\* a worker the main loop no longer waits for comes back: its send fails,
\* the thread ends
WorkerReturnsLate ==
    /\ tool = "run_gather" /\ status = "running"
    /\ \/ /\ \E w \in workers :
                /\ ~HasReceiver(w)
                /\ workers' = workers \ { w }
          /\ UNCHANGED old_workers
       \/ /\ old_workers > 0
          /\ old_workers' \in
                 IF old_workers = MaxWorkers
                 THEN { MaxWorkers - 1, MaxWorkers }
                 ELSE { old_workers - 1 }
          /\ UNCHANGED workers
    /\ UNCHANGED << config, later, reports, status, pc, queue, entity, attempt, chan,
                    written, fetch_log, loopvars, parsed, metrics, logs >>

\* timeout_retry retries whatever the reason of the missing value
RetryAlways(a, val) == IsNone(val)
\* timeout_retry: the loop goes round again when read_with_timeout gave None
\* and attempts are left
RetryAfter(a, val) == IsNone(val) /\ a + 1 < Retries

\* the skipped entity ends the run
ReturnErrAfterSkip ==
    /\ status' = "failed"
    /\ UNCHANGED << pc, attempt, workers, written, queue >>
\* None from timeout_retry: a warning, and `continue` with the next entity
ContinueAfterSkip ==
    /\ pc' = "entity"
    /\ UNCHANGED << attempt, workers, status, written, queue >>

\* read_with_timeout has returned val for the current attempt; outcome tells
\* how
AfterAttempt(outcome, val) ==
    /\ fetch_log' = Push(fetch_log, Unwrap(entity), outcome)
    /\ IF IsSome(val)
       THEN \* wtr.serialize(..)? and, for a process, the walk over its threads
            /\ \/ /\ written' = written \cup
                                  { Row(Unwrap(entity), attempt, Unwrap(val)) }
                  /\ queue' = IF Unwrap(entity).tid = Unwrap(entity).pid
                               THEN Threads(Unwrap(entity).pid) \o queue
                               ELSE queue
                  /\ pc' = "entity"
                  /\ UNCHANGED status
               \/ /\ status' = "failed"
                  /\ UNCHANGED << written, queue, pc >>
            /\ UNCHANGED << attempt, workers >>
       ELSE IF RetryAfter(attempt, val)
       THEN /\ attempt' = attempt + 1
            /\ workers' = workers \cup { Worker(Unwrap(entity), attempt + 1) }
            /\ UNCHANGED << pc, status, written, queue >>
       ELSE ContinueAfterSkip
    /\ chan' = None
    /\ UNCHANGED << config, later, reports, entity, old_workers, loopvars, parsed,
                    metrics, logs >>

\* recv_timeout returns Ok(val), or Err because the sender is gone
Recv ==
    /\ tool = "run_gather" /\ status = "running" /\ pc = "await"
    /\ IsSome(chan)
    /\ AfterAttempt(Unwrap(chan).ret,
                    IF Unwrap(chan).ret = "info" THEN Some(Unwrap(chan).by)
                    ELSE None)

\* rx.recv(): no deadline, the call only comes back with a message
RecvBlocks ==
    /\ tool = "run_gather" /\ status = "running" /\ pc = "await"
    /\ IsNone(chan)
    /\ FALSE
    /\ UNCHANGED vars
\* recv_timeout returns Err: the deadline has passed and nothing was sent
RecvTimeout ==
    /\ tool = "run_gather" /\ status = "running" /\ pc = "await"
    /\ IsNone(chan)
    /\ AfterAttempt("timeout", None)

\* end of the pass: wtr.flush()?
GatherFlush ==
    /\ tool = "run_gather" /\ status = "running" /\ pc = "entity"
    /\ queue = <<>>
    /\ \/ pc' = "sleep" /\ UNCHANGED status
       \/ status' = "failed" /\ UNCHANGED pc
    /\ UNCHANGED << config, later, reports, gatherer, loopvars, parsed, metrics,
                    logs >>

\* thread::sleep(interval_secs), then the top of the loop
GatherSleep ==
    /\ tool = "run_gather" /\ status = "running" /\ pc = "sleep"
    /\ pc' = "pass"
    /\ UNCHANGED << config, later, reports, gatherer, status, loopvars, parsed,
                    metrics, logs >>

Next ==
    \/ PlaybackDiskLine
    \/ PlaybackCpuLine
    \/ PlaybackMemLine
    \/ PlaybackNetLine
    \/ PlaybackEof
    \/ AnalyzeLine
    \/ AnalyzeEof
    \/ AnalyzeDiskMetrics
    \/ AnalyzeCpuMetrics
    \/ AnalyzeMemMetrics
    \/ AnalyzeNetMetrics
    \/ AnalyzeTopTables
    \/ LiveDiskPass

Spec == Init /\ [][Next]_vars

\* analyze alone, on longer captures of disk or network records
SeriesRuns == { <<"analyze", "DISK">>, <<"analyze", "NET">> }
InitSeries == InitWith(SeriesRuns, MaxSeriesRows)
NextSeries ==
    \/ AnalyzeLine
    \/ AnalyzeEof
    \/ AnalyzeDiskMetrics
    \/ AnalyzeCpuMetrics
    \/ AnalyzeMemMetrics
    \/ AnalyzeNetMetrics
    \/ AnalyzeTopTables
SpecSeries == InitSeries /\ [][NextSeries]_vars

\* report_mpath_stats on the capture of a host with two paths
MpathRuns == { <<"report_mpath_stats", "PATHS">> }
InitMpath == InitWith(MpathRuns, MaxSeriesRows)
NextMpath ==
    \/ GetDiskMetricsLine
    \/ GetDiskMetricsMap
    \/ ReportMpathStats
SpecMpath == InitMpath /\ [][NextMpath]_vars

\* analyze on the capture of a host with three disks
TableRuns == { <<"analyze", "TABLES">> }
InitTables == InitWith(TableRuns, MaxTableRows)
NextTables ==
    \/ AnalyzeLine
    \/ AnalyzeEof
    \/ AnalyzeDiskMetrics
    \/ AnalyzeCpuMetrics
    \/ AnalyzeMemMetrics
    \/ AnalyzeNetMetrics
    \/ AnalyzeTopTables
SpecTables == InitTables /\ [][NextTables]_vars

\* procstats_grab -g
GatherRuns == { <<"run_gather", "PROC">> }
InitGather == InitWith(GatherRuns, 0)
\* the steps of the main thread
GatherMain ==
    \/ GatherPass
    \/ GatherEntity
    \/ Recv
    \/ RecvTimeout
    \/ GatherFlush
    \/ GatherSleep
NextGather ==
    \/ GatherPass
    \/ GatherEntity
    \/ WorkerReturns
    \/ WorkerReturnsLate
    \/ Recv
    \/ RecvTimeout
    \/ GatherFlush
    \/ GatherSleep
SpecGather == InitGather /\ [][NextGather]_vars
\* the main thread is scheduled and its timed waits end; a worker may stay
\* in its read for ever
SpecGatherLive == SpecGather /\ WF_vars(GatherMain)

\* ------------------------------------------------------- collectl2diskstats
\* the two converters of collectl raw files
Converters == { "collectl2diskstats.rh8+", "collectl2diskstats.rhel7" }
\* lines a converter may write before the end of its input
MaxDatLines == 2
\* the first token of a disk line, and of an epoch marker, of a raw file
disk == -11
marker == -12

\* x.parse::<f64>().ok() of the token after ">>>", then `as u64`
EpochOf(tok) == IF tok >= 0 THEN Some(Min(tok, U64_MAX)) ELSE None

\* wanted_disks.iter().any(|prefix| devname.starts_with(prefix))
Wanted(devname) == devname \in { sda, sdb, sdc }

\* the field when the line has it, the empty string otherwise
FieldOrEmpty(disk_fields, i) ==
    IF Len(disk_fields) > i THEN disk_fields[i + 1] ELSE empty
\* if disk_fields.len() > i { disk_fields[i] } else { "0" }, i counted from 0
FieldOrZero(disk_fields, i) ==
    IF Len(disk_fields) > i THEN disk_fields[i + 1] ELSE 0

\* collectl2diskstats.rh8+: the DISK lines written for one disk line
ConvertDiskRh8(ts, disk_fields) ==
    IF Len(disk_fields) >= 18 /\ Wanted(disk_fields[4])
    THEN << Line("DISK",
                 << ts >> \o SubSeq(disk_fields, 2, 18)
                        \o << FieldOrZero(disk_fields, 18) >>) >>
    ELSE <<>>

\* collectl2diskstats.rhel7: the DISK lines written for one disk line
ConvertDiskRhel7(ts, disk_fields) ==
    IF (Len(disk_fields) = 15 \/ Len(disk_fields) = 18)
       /\ Wanted(disk_fields[4])
    THEN << Line("DISK",
                 << ts >> \o SubSeq(disk_fields, 2, 15)
                        \o << FieldOrZero(disk_fields, 15),
                              FieldOrZero(disk_fields, 16),
                              FieldOrZero(disk_fields, 17), 0 >>) >>
    ELSE <<>>

\* a disk line of a raw file with n counters after major, minor and name
DiskRaw(name, n) == << disk, 8, 0, name >> \o [i \in 1..n |-> (i % 7) + 1]
\* the lines of a collectl raw file
CollectlLines ==
    { << marker, ts >> : ts \in 1..MaxTs } \cup { << marker, garbage >> }
    \cup { DiskRaw(name, n) : name \in { sda, ram0 }, n \in 10..17 }
    \cup { [DiskRaw(sda, 15) EXCEPT ![5] = garbage], << cpu, 1, 2 >> }

\* one line of the input: an epoch marker starts a block, a disk line inside
\* a block is converted, every other line leaves the DISK output alone
ConvertLine ==
    /\ tool \in Converters /\ status = "running"
    /\ Len(dat) < MaxDatLines
    /\ \E l \in CollectlLines :
         /\ raw' = Some(l)
         /\ IF l[1] = marker
            THEN /\ epoch' = IF IsSome(EpochOf(l[2])) THEN EpochOf(l[2])
                                                      ELSE epoch
                 /\ UNCHANGED dat
            ELSE /\ dat' = IF IsNone(epoch) \/ l[1] # disk THEN dat
                           ELSE IF tool = "collectl2diskstats.rhel7"
                           THEN dat \o ConvertDiskRhel7(Unwrap(epoch), l)
                           ELSE dat \o ConvertDiskRh8(Unwrap(epoch), l)
                 /\ UNCHANGED epoch
    /\ UNCHANGED << config, replay, status, loopvars, pc, parsed, metrics,
                    logs, extra >>

\* end of the raw file
ConvertEof ==
    /\ tool \in Converters /\ status = "running"
    /\ raw' = None
    /\ status' = "done"
    /\ UNCHANGED << config, replay, epoch, dat, loopvars, pc, parsed, metrics,
                    logs, extra >>

ConvertRuns == { << c, "COLLECTL" >> : c \in Converters }
InitConvert == InitWith(ConvertRuns, 0)
NextConvert ==
    \/ ConvertLine
    \/ ConvertEof
SpecConvert == InitConvert /\ [][NextConvert]_vars

\* ------------------------------------------------------------ two runs
\* the store as an earlier run left it
KeptStore(old) == old
\* let mut prev: HashMap<..> = HashMap::new(): the store a run starts with,
\* whatever an earlier run held
FreshStore(old) == EmptyMap

\* a run: the front-end and its --from / --to window
Run(t, from, to) == [tool |-> t, from_sec |-> from, to_sec |-> to]
\* the runs a capture is given to after a first run: the same command again,
\* playback_disk without its window, or analyze after a playback of the
\* whole capture
SecondRuns(r) ==
    { r }
    \cup (IF r.tool = "playback_disk"
          THEN { Run("playback_disk", None, None) } ELSE {})
    \cup (IF r = Run("playback_disk", None, None)
          THEN { Run("analyze", None, None) } ELSE {})

\* the first run has returned and the capture is given to a second run, which
\* creates its locals anew
Rerun ==
    /\ capture = "REPLAY" /\ run_no = 1 /\ status = "done"
    /\ \E r \in SecondRuns(Run(tool, from_sec, to_sec)) :
         /\ tool' = r.tool
         /\ from_sec' = r.from_sec
         /\ to_sec' = r.to_sec
    /\ first_run' = Some([run |-> Run(tool, from_sec, to_sec),
                          emitted |-> emitted,
                          disk_metrics |-> disk_metrics])
    /\ run_no' = 2
    /\ emitted' = <<>>
    /\ status' = "running"
    /\ line' = None
    /\ prev' = FreshStore(prev)
    /\ printed_header' = FALSE
    /\ no_data' = FALSE
    /\ iter' = NoIter
    /\ pc' = "parse"
    /\ per_device' = EmptyMap /\ cpu_vec' = <<>> /\ mem_vec' = <<>>
    /\ per_net' = EmptyMap
    /\ disk_metrics' = EmptyMap /\ cpu_metrics' = <<>> /\ mem_metrics' = <<>>
    /\ net_metrics' = EmptyMap
    /\ disk_log' = EmptyMap /\ cpu_log' = <<>> /\ net_log' = EmptyMap
    /\ tables' = EmptyMap
    /\ UNCHANGED << capture, overflow_checks, interval, device_filter,
                    file_rows, devices, mpath_out, gatherer, converter,
                    stream >>

TwiceRuns == { <<"playback_disk", "REPLAY">>, <<"analyze", "REPLAY">> }
InitTwice == InitWith(TwiceRuns, MaxStream)
NextTwice ==
    \/ PlaybackDiskLine
    \/ PlaybackEof
    \/ AnalyzeLine
    \/ AnalyzeEof
    \/ AnalyzeDiskMetrics
    \/ AnalyzeCpuMetrics
    \/ AnalyzeMemMetrics
    \/ AnalyzeNetMetrics
    \/ AnalyzeTopTables
    \/ Rerun
SpecTwice == InitTwice /\ [][NextTwice]_vars

\* every reader on a capture that gather wrote
RoundTripRuns ==
    { <<"playback_disk", "GATHER">>, <<"playback_cpu", "GATHER">>,
      <<"playback_mem", "GATHER">>, <<"playback_net", "GATHER">>,
      <<"analyze", "GATHER">> }
InitRoundTrip == InitWith(RoundTripRuns, MaxGatherRows)
NextRoundTrip ==
    \/ PlaybackDiskLine
    \/ PlaybackCpuLine
    \/ PlaybackMemLine
    \/ PlaybackNetLine
    \/ PlaybackEof
    \/ AnalyzeLine
    \/ AnalyzeEof
    \/ AnalyzeDiskMetrics
    \/ AnalyzeCpuMetrics
    \/ AnalyzeMemMetrics
    \/ AnalyzeNetMetrics
    \/ AnalyzeTopTables
SpecRoundTrip == InitRoundTrip /\ [][NextRoundTrip]_vars

\* ------------------------------------------------------------ properties
\* the iteration the read loop of a playback function has just executed
LastIter(tools) == IF tool \in tools /\ IsSome(iter.cur) THEN { iter } ELSE {}
\* the iterations a metric loop of analyze has executed
SeqIters(log) == { log[i] : i \in 1..Len(log) }
MapIters(log) == UNION { SeqIters(log[k]) : k \in DOMAIN log }
\* an iteration that had a prior to pair the record with
Paired(it) == IsSome(it.cur) /\ IsSome(it.prior)
\* each iteration of a metric loop sees the record before it as its prior
Chained(log) == \A i \in 1..(Len(log) - 1) : log[i + 1].prior = log[i].cur

\* C1: in playback_disk, playback_net and the disk, net and CPU loops of
\* analyze, once a parsed record of key k has been processed the stored prior
\* of k is that record, whether or not a metric was emitted, also when its
\* timestamp is not after the prior's.
C1_PriorAdvances ==
    /\ \A it \in LastIter({ "playback_disk" }) :
         status = "running" =>
            LET key == DiskKey(Unwrap(it.cur).stat)
            IN key \in DOMAIN prev /\ prev[key] = Unwrap(it.cur)
    /\ \A it \in LastIter({ "playback_net" }) :
         status = "running" =>
            LET iface == UnwrapOr(Col(Unwrap(line).cols, 2), unknown)
            IN iface \in DOMAIN prev /\ prev[iface] = Unwrap(it.cur)
    /\ \A dev \in DOMAIN disk_log : Chained(disk_log[dev])
    /\ Chained(cpu_log)
    /\ \A iface \in DOMAIN net_log : Chained(net_log[iface])

\* the timestamp of the record is not after the timestamp of its prior
Stalled(it) == Paired(it) /\ Unwrap(it.cur).ts <= Unwrap(it.prior).ts

\* C2: in every domain, a pair whose current timestamp is equal to or
\* earlier than the prior's yields no interval metric.
C2_NoMetricWhenTimeStalls ==
    /\ \A it \in LastIter({ "playback_disk", "playback_cpu", "playback_net" }) :
         Stalled(it) => IsNone(it.row)
    /\ \A it \in MapIters(disk_log) : Stalled(it) => IsNone(it.row)
    /\ \A it \in SeqIters(cpu_log) : Stalled(it) => IsNone(it.row)
    /\ \A it \in MapIters(net_log) : Stalled(it) => IsNone(it.row)

\* the iteration a panic cut short
AbortedIters ==
    IF status # "panicked" THEN {}
    ELSE LastIter({ "playback_disk", "playback_cpu", "playback_net" })
         \cup (IF tool = "analyze" /\ pc = "cpu" /\ Len(cpu_log) > 0
               THEN { cpu_log[Len(cpu_log)] } ELSE {})
\* counter f (a field name or a column index) is lower than in the prior
Regressed(cur, prior, f) == cur[f] < prior[f]
\* every counter of `pairs` (counter, metric) that regressed shows as 0.0
ClampedToZero(cur, prior, row, pairs) ==
    \A p \in pairs : Regressed(cur, prior, p[1]) => row[p[2]] = Zero

\* C3: in every domain a counter that is lower than in the prior contributes
\* a delta of exactly 0 to the metric, and never aborts the run.
C3_RegressionClampsToZero ==
    /\ \A it \in AbortedIters :
         Paired(it) =>
            LET cur == Unwrap(it.cur)
                prior == Unwrap(it.prior)
            IN  IF tool \in { "playback_cpu", "analyze" }
                THEN /\ \A i \in 1..Min(Len(cur.vals), Len(prior.vals)) :
                          ~Regressed(cur.vals, prior.vals, i)
                     /\ tool = "playback_cpu" => cur.guest >= prior.guest
                ELSE TRUE
    /\ \A it \in LastIter({ "playback_disk" }) :
         IsSome(it.row) =>
            ClampedToZero(Unwrap(it.cur).stat, Unwrap(it.prior).stat,
                          Unwrap(it.row),
                          { <<"reads", "r_s">>, <<"writes", "w_s">>,
                            <<"sectors_read", "rd_kbs">>,
                            <<"sectors_written", "wr_kbs">>,
                            <<"sectors_discarded", "discard_kbs">>,
                            <<"weighted_io_time_ms", "avg_queue_depth">> })
    /\ \A it \in MapIters(disk_log) :
         IsSome(it.row) =>
            ClampedToZero(Unwrap(it.cur).stat, Unwrap(it.prior).stat,
                          Unwrap(it.row),
                          { <<"reads", "rps">>, <<"writes", "wps">>,
                            <<"sectors_read", "rd_kbs">>,
                            <<"sectors_written", "wr_kbs">>,
                            <<"discards", "discards_s">>,
                            <<"discards_merged", "discards_merged_s">>,
                            <<"sectors_discarded", "sectors_discarded_s">>,
                            <<"weighted_io_time_ms", "avg_queue_depth">> })
    /\ \A it \in LastIter({ "playback_net" }) :
         IsSome(it.row) =>
            ClampedToZero(Unwrap(it.cur).vals, Unwrap(it.prior).vals,
                          Unwrap(it.row),
                          { <<1, "rx_kbs">>, <<2, "tx_kbs">> })
    /\ \A it \in MapIters(net_log) :
         IsSome(it.row) =>
            ClampedToZero(Unwrap(it.cur).stat, Unwrap(it.prior).stat,
                          Unwrap(it.row),
                          { <<NetStatFields[i], NetStatFields[i]>> :
                              i \in 1..Len(NetStatFields) })
    /\ \A it \in LastIter({ "playback_cpu" }) :
         IsSome(it.row) =>
            /\ ClampedToZero(Unwrap(it.cur).vals, Unwrap(it.prior).vals,
                             Unwrap(it.row),
                             { <<1, "user">>, <<2, "nice">>, <<3, "sys">>,
                               <<4, "idle">>, <<5, "iowait">> })
            /\ Unwrap(it.cur).guest < Unwrap(it.prior).guest
                  => Unwrap(it.row).guest = Zero
    /\ \A it \in SeqIters(cpu_log) :
         IsSome(it.row) =>
            /\ ClampedToZero(Unwrap(it.cur).vals, Unwrap(it.prior).vals,
                             Unwrap(it.row),
                             { <<3, "sys">>, <<4, "idle">>, <<5, "iowait">>,
                               <<9, "guest">> })
            /\ ( /\ Regressed(Unwrap(it.cur).vals, Unwrap(it.prior).vals, 1)
                 /\ Unwrap(it.cur).vals[2] <= Unwrap(it.prior).vals[2] )
                  => Unwrap(it.row).user = Zero

\* C4: a disk metric is only computed from two snapshots that agree on
\* (major, minor, name); pairing never crosses keys.
C4_PairsShareKey ==
    /\ \A it \in LastIter({ "playback_disk" }) :
         Paired(it) =>
            DiskKey(Unwrap(it.cur).stat) = DiskKey(Unwrap(it.prior).stat)
    /\ \A it \in MapIters(disk_log) :
         Paired(it) =>
            DiskKey(Unwrap(it.cur).stat) = DiskKey(Unwrap(it.prior).stat)

\* C5: whatever lines the capture holds (a bare type tag, too few fields,
\* non-numeric fields), analyze and the playback functions never panic.
C5_NeverPanics == status # "panicked"

\* a NET record with fewer than 8 counters or a counter that is not a number
NetMalformed(l) ==
    /\ l.typ = "NET" /\ Len(l.cols) >= 2
    /\ \/ Len(l.cols) < 10
       \/ \E i \in 3..10 : IsNone(ParseU64(l.cols[i]))
\* a MEM record with fewer than 14 gauges or a gauge that is not a number
MemMalformed(l) ==
    /\ l.typ = "MEM" /\ Len(l.cols) >= 1
    /\ \/ Len(l.cols) < 15
       \/ \E i \in 2..15 : IsNone(ParseU64(l.cols[i]))

\* C6: a NET or MEM record with too few fields or an unparseable numeric
\* field is skipped: it yields no metric, it is not stored (as a prior or as
\* a row of the series), and no 0 stands in for what is missing.
C6_MalformedSkipped ==
    [][ ( /\ IsSome(line')
          /\ \/ NetMalformed(Unwrap(line'))
             \/ MemMalformed(Unwrap(line')) )
        => /\ prev' = prev
           /\ per_net' = per_net
           /\ mem_vec' = mem_vec
           /\ IsNone(iter'.row) ]_vars

\* the jiffy counters of a CPU row of analyze: user .. guest
CpuJiffies(rec) == SubSeq(rec.vals, 1, Min(9, Len(rec.vals)))

Pct(num, den) == FMul(FDiv(F64(num), F64(den)), Hundred)

\* C8: in analyze the denominator of the CPU percentages is the sum of the
\* deltas of the nine jiffy counters (user .. guest) only; the running and
\* blocked gauges do not contribute to it.
C8_DenominatorIsJiffySum ==
    \A it \in SeqIters(cpu_log) :
        IsSome(it.row) =>
            LET cur == Unwrap(it.cur).vals
                last == Unwrap(it.prior).vals
                total == SumExact([i \in 1..9 |-> cur[i] - last[i]])
                row == Unwrap(it.row)
            IN  ( /\ \A i \in 1..9 : cur[i] >= last[i]
                  /\ total > 0 )
                => /\ row.user = Pct((cur[1] - last[1]) + (cur[2] - last[2]),
                                     total)
                   /\ row.sys = Pct(cur[3] - last[3], total)
                   /\ row.idle = Pct(cur[4] - last[4], total)
                   /\ row.iowait = Pct(cur[5] - last[5], total)
                   /\ row.guest = Pct(cur[9] - last[9], total)

\* a DISK record with the 11 base counters and no discard counters
NoDiscardRecord(l) ==
    /\ l.typ = "DISK" /\ Len(l.cols) = 15
    /\ \A i \in { 1, 2, 3 } \cup 5..15 : IsSome(ParseU64(l.cols[i]))

\* C9: a DISK record that carries the base counters but no discard counters
\* is accepted: playback_disk parses and stores it, analyze adds it to the
\* rows of its device.
C9_NoDiscardRecordAccepted ==
    [][ (IsSome(line') /\ NoDiscardRecord(Unwrap(line')))
        => /\ tool = "playback_disk" => IsSome(iter'.cur)
           /\ tool = "analyze" => per_device' # per_device ]_vars

\* the delta of counter f is 0, as it is or clamped
ZeroDelta(cur, prior, f) == cur[f] <= prior[f]

\* C10: every disk ratio whose denominator delta is 0 is exactly 0.0 (qlen,
\* svctim, read, write and discard await), in playback_disk, analyze and the
\* live disk view, also when the 0 is a clamped counter.
C10_ZeroDenominatorRatioIsZero ==
    /\ \A it \in LastIter({ "playback_disk" }) :
         IsSome(it.row) =>
            LET cur == Unwrap(it.cur).stat
                prior == Unwrap(it.prior).stat
                row == Unwrap(it.row)
            IN  /\ ZeroDelta(cur, prior, "io_time_ms") => row.qlen = Zero
                /\ ( /\ ZeroDelta(cur, prior, "reads")
                     /\ ZeroDelta(cur, prior, "writes") )
                      => row.svctim = Zero
                /\ ZeroDelta(cur, prior, "reads") => row.await_read_ms = Zero
                /\ ZeroDelta(cur, prior, "writes") => row.await_write_ms = Zero
                /\ ZeroDelta(cur, prior, "discards")
                      => row.await_discard_ms = Zero
    /\ \A it \in MapIters(disk_log) :
         IsSome(it.row) =>
            LET cur == Unwrap(it.cur).stat
                prior == Unwrap(it.prior).stat
                row == Unwrap(it.row)
            IN  /\ ZeroDelta(cur, prior, "io_time_ms") => row.qlen = Zero
                /\ ( /\ ZeroDelta(cur, prior, "reads")
                     /\ ZeroDelta(cur, prior, "writes") )
                      => row.svctim = Zero
                /\ ZeroDelta(cur, prior, "reads") => row.await_rd = Zero
                /\ ZeroDelta(cur, prior, "writes") => row.await_wr = Zero
                /\ ZeroDelta(cur, prior, "discards")
                      => row.await_discard_ms = Zero
    /\ tool = "run_live_disk" /\ IsSome(iter.row) =>
         LET rows == Unwrap(iter.row)
         IN \A d \in DOMAIN rows :
              LET cur == Unwrap(iter.cur)[d]
                  prior == Unwrap(iter.prior)[d]
              IN  /\ ZeroDelta(cur, prior, "io_time_ms") => rows[d].qlen = Zero
                  /\ ZeroDelta(cur, prior, "reads")
                        => rows[d].await_rd_ms = Zero
                  /\ ZeroDelta(cur, prior, "writes")
                        => rows[d].await_wr_ms = Zero

\* playback_disk has printed a row for a pair whose reads counter went down
\* while the time counters went up
C10_Witness ==
    /\ tool = "playback_disk"
    /\ IsSome(iter.row)
    /\ Unwrap(iter.cur).stat.reads < Unwrap(iter.prior).stat.reads
    /\ Unwrap(iter.row).await_read_ms = Zero

\* the record is later than its prior
Advanced(it) == Paired(it) /\ Unwrap(it.cur).ts > Unwrap(it.prior).ts
\* the seconds between the record and its prior
Elapsed(it) == Unwrap(it.cur).ts - Unwrap(it.prior).ts

DiskDelta(cur, prior, f) == saturating_sub(cur[f], prior[f])
\* sectors of 512 bytes per dt seconds, in KB/s
SectorsToKBs(sectors, dt) ==
    FDiv(FDiv(FMul(F64(sectors), F64(512)), F64(1024)), F64(dt))
\* a DiskStat with the given reads and sectors_read and every other counter 0
StatWith(reads, sectors_read) ==
    [ Unwrap(from_csv_fields(Rest(DiskCols(0, <<8, 0, sda>>, 0, 0), 1)))
        EXCEPT !.reads = reads, !.sectors_read = sectors_read ]

\* C12: for every disk pair with dt > 0, reads/s and writes/s are the counter
\* deltas over dt, read and write KB/s are the sector deltas * 512 / 1024
\* over dt, and the totals are the sums of the two; reads 100 -> 150 and
\* sectors_read 1000 -> 2000 over 10 s give 5.0 reads/s and 50.0 KB/s.
C12_DiskRates ==
    /\ \A it \in LastIter({ "playback_disk" }) :
         IsSome(it.row) =>
            LET cur == Unwrap(it.cur).stat
                prior == Unwrap(it.prior).stat
                row == Unwrap(it.row)
                dt == Elapsed(it)
            IN  /\ row.r_s = FDiv(F64(DiskDelta(cur, prior, "reads")), F64(dt))
                /\ row.w_s = FDiv(F64(DiskDelta(cur, prior, "writes")), F64(dt))
                /\ row.rd_kbs =
                      SectorsToKBs(DiskDelta(cur, prior, "sectors_read"), dt)
                /\ row.wr_kbs =
                      SectorsToKBs(DiskDelta(cur, prior, "sectors_written"), dt)
    /\ \A it \in MapIters(disk_log) :
         IsSome(it.row) =>
            LET cur == Unwrap(it.cur).stat
                prior == Unwrap(it.prior).stat
                row == Unwrap(it.row)
                dt == Elapsed(it)
            IN  /\ row.rps = FDiv(F64(DiskDelta(cur, prior, "reads")), F64(dt))
                /\ row.wps = FDiv(F64(DiskDelta(cur, prior, "writes")), F64(dt))
                /\ row.io_sec = FAdd(row.rps, row.wps)
                /\ row.rd_kbs =
                      SectorsToKBs(DiskDelta(cur, prior, "sectors_read"), dt)
                /\ row.wr_kbs =
                      SectorsToKBs(DiskDelta(cur, prior, "sectors_written"), dt)
                /\ row.kb_sec = FAdd(row.rd_kbs, row.wr_kbs)
    /\ (tool = "run_live_disk" /\ IsSome(iter.row) /\ interval > 0) =>
         LET rows == Unwrap(iter.row)
         IN \A d \in DOMAIN rows :
              LET cur == Unwrap(iter.cur)[d]
                  prior == Unwrap(iter.prior)[d]
              IN  /\ rows[d].r_s =
                        FDiv(F64(DiskDelta(cur, prior, "reads")), F64(interval))
                  /\ rows[d].w_s =
                        FDiv(F64(DiskDelta(cur, prior, "writes")), F64(interval))
                  /\ rows[d].total_iops = FAdd(rows[d].r_s, rows[d].w_s)
                  /\ rows[d].rd_kbs =
                        SectorsToKBs(DiskDelta(cur, prior, "sectors_read"),
                                     interval)
                  /\ rows[d].total_kb = FAdd(rows[d].rd_kbs, rows[d].wr_kbs)
    /\ LET p == PlaybackDiskRow(10, StatWith(150, 2000), 0, StatWith(100, 1000))
           a == AnalyzeDiskRow(10, StatWith(150, 2000), 0, StatWith(100, 1000))
       IN  /\ p.r_s = F64(5) /\ p.rd_kbs = F64(50)
           /\ a.rps = F64(5) /\ a.rd_kbs = F64(50)
           /\ a.io_sec = F64(5) /\ a.kb_sec = F64(50)

\* playback_disk has printed the row of a pair whose reads and sectors_read
\* went up by 1 in 1 second
C12_Witness ==
    /\ tool = "playback_disk"
    /\ IsSome(iter.row)
    /\ Elapsed(iter) = 1
    /\ Unwrap(iter.row).r_s = F64(1)
    /\ Unwrap(iter.row).rd_kbs = FDiv(F64(1), F64(2))

\* the timestamps of a series go strictly up
StrictlyIncreasing(series) ==
    \A i \in 1..(Len(series) - 1) : series[i].ts < series[i + 1].ts

\* C13: whatever the order of the records in the capture file, the
\* timestamps of the metrics of one device's or interface's series built by
\* analyze are strictly increasing.
C13_SeriesChronological ==
    /\ \A dev \in DOMAIN disk_metrics : StrictlyIncreasing(disk_metrics[dev])
    /\ \A iface \in DOMAIN net_metrics : StrictlyIncreasing(net_metrics[iface])

\* C14: the previous-sample store never shrinks during a run: a key that has
\* an entry keeps one in every later state, in the playback loops and in the
\* live view, also when a device is absent from one polling pass.
C14_StoreNeverShrinks ==
    [][ \A k \in DOMAIN prev : k \in DOMAIN prev' ]_vars

\* the run of report_mpath_stats has ended with its report
Reported == tool = "report_mpath_stats" /\ status = "done"
\* the means of every path of a group, active or not
AllPathMeans(mdev) ==
    [i \in 1..Len(mdev.paths) |-> PathMeans(disk_metrics, mdev.paths[i])]
\* the rows printed for the group of that name
PrintedGroups(name) ==
    { i \in 1..Len(mpath_out) : mpath_out[i].name = name }
\* p * 100 / total
Share(path_mean, total) == FDiv(FMul(Hundred, path_mean), total)

\* C15: a group whose total mean IOPS over all of its paths is nonzero is
\* reported with that total (and the total mean KB/s) and with one row for
\* every one of its paths, idle paths included, each row carrying the share
\* 100 * path mean / group total.
C15_EveryPathReported ==
    Reported =>
        \A g \in 1..Len(devices) :
            LET means == AllPathMeans(devices[g])
                total_iops == FSum([i \in 1..Len(means) |-> means[i].iops])
                total_kbs == FSum([i \in 1..Len(means) |-> means[i].kbs])
            IN  total_iops # Zero =>
                    \E r \in PrintedGroups(devices[g].name) :
                        /\ mpath_out[r].mpath_total_iops = total_iops
                        /\ mpath_out[r].mpath_total_kbs = total_kbs
                        /\ Len(mpath_out[r].paths) = Len(means)
                        /\ \A i \in 1..Len(means) :
                              /\ mpath_out[r].paths[i].dev = means[i].dev
                              /\ mpath_out[r].paths[i].io_pct =
                                     Share(means[i].iops, total_iops)

\* C16: a group is left out of the report exactly when every one of its
\* paths has mean IOPS 0 and mean KB/s 0 over the capture, a path without a
\* series counting as 0; a group with an active path is printed.
C16_OmittedIffIdle ==
    Reported =>
        \A g \in 1..Len(devices) :
            LET means == AllPathMeans(devices[g])
            IN  (PrintedGroups(devices[g].name) = {})
                    <=> \A i \in 1..Len(means) :
                            means[i].iops = Zero /\ means[i].kbs = Zero

\* a report that prints one group and leaves out a group whose only path has
\* a series in the capture, all of it idle
C16_Witness ==
    /\ Reported
    /\ \E g, h \in 1..Len(devices) :
         /\ PrintedGroups(devices[g].name) # {}
         /\ PrintedGroups(devices[h].name) = {}
         /\ \E i \in 1..Len(devices[h].paths) :
               devices[h].paths[i] \in DOMAIN disk_metrics

\* analyze has returned after writing its reports
Analyzed == tool = "analyze" /\ status = "done"
\* min(50, number of devices with a non-empty series), 50 scaled to TopN
TableLength ==
    IF Cardinality(DOMAIN disk_metrics) < TopN
    THEN Cardinality(DOMAIN disk_metrics) ELSE TopN
\* a table of that length whose rows are distinct devices with their mean and
\* maximum of the metric, in non-increasing order of the ranking value, no
\* device left out having a strictly larger ranking value than a listed one
RankedTable(table, key, by) ==
    /\ Len(table) = TableLength
    /\ \A i \in DOMAIN table :
         /\ table[i].dev \in DOMAIN disk_metrics
         /\ table[i].avg = mean(disk_metrics[table[i].dev], key)
         /\ table[i].max = max(disk_metrics[table[i].dev], key)
    /\ \A i, j \in DOMAIN table :
         /\ i # j => table[i].dev # table[j].dev
         /\ i < j => ~FGt(table[j][by], table[i][by])
    /\ \A dev \in DOMAIN disk_metrics :
         (\A i \in DOMAIN table : table[i].dev # dev) =>
             LET value == IF by = "avg" THEN mean(disk_metrics[dev], key)
                          ELSE max(disk_metrics[dev], key)
             IN  \A i \in DOMAIN table : ~FGt(value, table[i][by])

\* C17: for each disk metric the average table lists min(50, devices with a
\* non-empty series) devices in non-increasing order of the mean over the
\* device's series, the peak table as many in non-increasing order of the
\* maximum, and no device left out of a table ranks strictly above a listed
\* one.
C17_TopTablesRanked ==
    (Analyzed /\ DOMAIN disk_metrics # {}) =>
        /\ DOMAIN tables = DiskMetricKeys
        /\ \A key \in DiskMetricKeys :
             /\ RankedTable(tables[key].avg, key, "avg")
             /\ RankedTable(tables[key].peak, key, "max")

\* tables cut to their length, with a busy device ranked above an idle one
\* and an idle device left out
C17_Witness ==
    /\ Analyzed
    /\ Cardinality(DOMAIN disk_metrics) > TopN
    /\ Len(tables["rps"].avg) = TopN
    /\ FGt(tables["rps"].avg[1].avg, tables["rps"].avg[TopN].avg)
    /\ FGt(tables["rps"].peak[1].max, tables["rps"].peak[TopN].max)

\* the entities whose fetch has been called in this pass
Fetched == DOMAIN fetch_log
\* timeout_retry has returned for the entity
Settled(e) == ~(pc = "await" /\ entity = Some(e))
\* a row of the entity was written in this pass
HasRow(e) == \E r \in written : r.ent = e
\* the main loop has left the entity behind without a row
SkipsEntity ==
    /\ pc = "await" /\ pc' = "entity"
    /\ ~HasRow(Unwrap(entity))'

\* C18: in a pass the fetch of an entity is attempted at most twice; a second
\* attempt follows only a first one that gave no result within its deadline;
\* when neither attempt gives a result within its deadline no row of the
\* entity is written in the pass, and the loop goes on with the next entity.
C18_AtMostTwoAttempts ==
    /\ [](\A e \in Fetched :
            /\ Len(fetch_log[e]) <= 2
            /\ Len(fetch_log[e]) = 2 => fetch_log[e][1] # "info"
            /\ (\A i \in DOMAIN fetch_log[e] : fetch_log[e][i] # "info")
                   => ~HasRow(e)
            /\ (Settled(e) /\ status = "running" /\ ~HasRow(e))
                   => /\ fetch_log[e][Len(fetch_log[e])] # "info"
                      /\ Len(fetch_log[e]) = 2)
    /\ [][SkipsEntity =>
             /\ status' = "running"
             /\ queue' = queue
             /\ Len(fetch_log'[Unwrap(entity)]) = 2]_vars

\* an entity was given up after two attempts that both ran into the deadline,
\* and the pass has gone on to the next entity
C18_Witness ==
    /\ tool = "run_gather" /\ status = "running" /\ pc = "await"
    /\ \E e \in Fetched :
         /\ entity # Some(e)
         /\ fetch_log[e] = << "timeout", "timeout" >>
         /\ ~HasRow(e)

\* the main loop waits for the fetch of an entity
Waiting == tool = "run_gather" /\ status = "running" /\ pc = "await"
\* the pass is over and the next one starts, or the run has ended with an
\* I/O error
NextPassOrError == pc = "pass" \/ status = "failed"

\* C19: a fetch that never comes back does not hold the loop: from every
\* wait for a fetch the pass goes on to its flush and sleep and the next pass
\* starts (unless listing /proc, a write or the flush fails meanwhile).
C19_StalledFetchDoesNotBlock == Waiting ~> NextPassOrError

\* a pass has reached its sleep while a worker it gave up on is still in its
\* read
C19_Witness ==
    /\ tool = "run_gather" /\ status = "running" /\ pc = "sleep"
    /\ \E w \in workers : "timeout" \in
           { fetch_log[w.ent][i] : i \in DOMAIN fetch_log[w.ent] }

\* C20: a fetch whose deadline has expired is cancelled; the only fetch worker
\* alive is the one of the attempt the main loop is waiting for, so the number
\* of live workers stays bounded over the passes.
C20_TimedOutFetchCancelled ==
    /\ old_workers = 0
    /\ \A w \in workers :
         pc = "await" /\ w = Worker(Unwrap(entity), attempt)

\* the main loop learns that the current attempt gave nothing: the wait ran
\* into the deadline, the closure returned None (the entity vanished, or the
\* stat line was malformed), or the worker crashed
FetchFails ==
    /\ tool = "run_gather" /\ status = "running" /\ pc = "await"
    /\ \/ IsNone(chan)
       \/ IsSome(chan) /\ Unwrap(chan).ret # "info"
    /\ fetch_log' # fetch_log
\* the run ends with an error
RunFails == status = "running" /\ status' = "failed"
\* the three places of run_gather where an I/O error is handed to the caller:
\* listing /proc, writing a row, flushing the file
FatalPlace ==
    \/ pc = "pass"
    \/ pc = "await" /\ IsSome(chan) /\ Unwrap(chan).ret = "info"
    \/ pc = "entity" /\ queue = <<>>
\* the outcomes of all the attempts of this pass
Outcomes ==
    UNION { { fetch_log[e][i] : i \in DOMAIN fetch_log[e] } : e \in Fetched }

\* C21: a failed fetch of one process or thread (timeout, vanished entity,
\* malformed stat line, crash of the worker) is recovered locally: the run
\* goes on, with the retry or with the next entity, and the entities still to
\* visit stay in place; the run only ends with an error where /proc is
\* listed, a row is written or the file is flushed.
C21_FetchFailureRecoveredLocally ==
    /\ [][FetchFails =>
             /\ status' = "running"
             /\ queue' = queue
             /\ written' = written
             /\ pc' \in { "await", "entity" }]_vars
    /\ [][RunFails => FatalPlace]_vars

\* a pass that met a timeout, a vanished entity and a crashed worker has
\* written a row all the same and reached its sleep
C21_Witness ==
    /\ tool = "run_gather" /\ status = "running" /\ pc = "sleep"
    /\ { "timeout", "none", "panic" } \subseteq Outcomes
    /\ written # {}

\* C28: every row of a pass was filled by an attempt of its own entity that
\* delivered within its own deadline in that pass; what a worker delivers
\* after its deadline is dropped, it never answers the retry, another entity
\* or a later pass.
C28_RowsFromTimelyAttempt ==
    \A r \in written :
        /\ r.by = Worker(r.ent, r.attempt)
        /\ r.ent \in Fetched
        /\ Len(fetch_log[r.ent]) = r.attempt + 1
        /\ fetch_log[r.ent][r.attempt + 1] = "info"

\* the first attempt ran into its deadline, its worker came back afterwards,
\* and the row was filled by the retry
C28_Witness ==
    /\ tool = "run_gather" /\ status = "running"
    /\ \E r \in written :
         /\ r.attempt = 1
         /\ fetch_log[r.ent] = << "timeout", "info" >>
         /\ Worker(r.ent, 0) \notin workers

\* the rates of a row of the live disk view
LiveRates(row) ==
    { row.r_s, row.w_s, row.rd_kbs, row.wr_kbs, row.qlen, row.await_rd_ms,
      row.await_wr_ms, row.total_kb, row.total_iops }

\* C30: for every interval the argument parser accepts for -g, 0 included,
\* the live disk loop never divides by zero: the loop does not abort and every
\* rate of every row it prints is a finite number.
C30_LiveRatesFinite ==
    tool = "run_live_disk" =>
        /\ status = "running"
        /\ IsSome(iter.row) =>
               \A d \in DOMAIN Unwrap(iter.row) :
                   \A rate \in LiveRates(Unwrap(iter.row)[d]) : IsFinite(rate)

\* ------------------------------------------------------------ round trip
\* the last element of a vector
Last(seq) == seq[Len(seq)]
\* the reader of this run has just read the line l
JustRead(l) == status # "done" /\ pc = "parse" /\ line = Some(l)

\* the DiskStat a reader holds for line l
ReadDisk(stat, now) ==
    /\ tool = "playback_disk" => iter.cur = Some([ts |-> now, stat |-> stat])
    /\ tool = "analyze" =>
          /\ stat.name \in DOMAIN per_device
          /\ Last(per_device[stat.name]) = [ts |-> now, stat |-> stat]

\* the jiffy counters and gauges a reader holds, by the names its metric
\* code gives them: user, nice, system, idle, iowait, guest, running, blocked
ReadCpu(stat, now) ==
    LET v == stat.cpu_vals
        named == << v[2], v[3], v[4], v[5], v[6], v[10],
                    Some(UnwrapOr(stat.procs_running, 0)),
                    Some(UnwrapOr(stat.procs_blocked, 0)) >>
    IN  /\ tool = "playback_cpu" =>
              /\ IsSome(iter.cur)
              /\ LET c == Unwrap(iter.cur)
                 IN  /\ c.ts = now
                     /\ << c.vals[1], c.vals[2], c.vals[3], c.vals[4],
                           c.vals[5], c.guest, c.running, c.blocked >> = named
                     /\ SubSeq(c.vals, 6, 8) = SubSeq(v, 7, 9)
        /\ tool = "analyze" =>
              /\ Len(cpu_vec) > 0
              /\ LET c == Last(cpu_vec)
                 IN  /\ c.ts = now
                     /\ << c.vals[1], c.vals[2], c.vals[3], c.vals[4],
                           c.vals[5], c.vals[9], c.running, c.blocked >>
                           = named

\* the gauges a reader holds, by name
ReadMem(values, now) ==
    LET gauges == [k \in { GatherMemKeys[i] : i \in 1..Len(GatherMemKeys) }
                      |-> GetOr(values, k, 0)]
    IN  /\ tool = "playback_mem" =>
              iter.cur = Some([ts |-> now, vals |-> gauges])
        /\ tool = "analyze" =>
              /\ Len(mem_vec) > 0
              /\ Last(mem_vec) = [ts |-> now, vals |-> gauges]

\* the interface counters a reader holds, by the names gather and the
\* readers give them
ReadNet(parts, now) ==
    LET rx_bytes == parts[2]   rx_packets == parts[3]
        rx_errors == parts[4]  rx_dropped == parts[5]
        tx_bytes == parts[10]  tx_packets == parts[11]
        tx_errors == parts[12] tx_dropped == parts[13]
    IN  /\ tool = "playback_net" =>
              iter.cur = Some([ts |-> now,
                               vals |-> << rx_bytes, tx_bytes, rx_packets,
                                           tx_packets, rx_errors, tx_errors,
                                           rx_dropped, tx_dropped >>])
        /\ tool = "analyze" =>
              /\ parts[1] \in DOMAIN per_net
              /\ Last(per_net[parts[1]]) =
                    [ts |-> now,
                     stat |-> [rx_bytes |-> rx_bytes, tx_bytes |-> tx_bytes,
                               rx_pkts |-> rx_packets, tx_pkts |-> tx_packets,
                               rx_errs |-> rx_errors, tx_errs |-> tx_errors,
                               rx_drop |-> rx_dropped,
                               tx_drop |-> tx_dropped]]

PlaybackTools ==
    { "playback_disk", "playback_cpu", "playback_mem", "playback_net" }

\* C24: when a playback function has ended, its "No ... data found." message
\* was printed if and only if it printed no metric row (the header goes out
\* with the first row), and a run that printed no row has returned Ok(()).
C24_NoDataIffNoRow ==
    (tool \in PlaybackTools /\ status # "running") =>
        /\ no_data <=> ~printed_header
        /\ ~printed_header => status = "done"

\* ------------------------------------------------------------ converters
\* the columns of a raw disk line after the name are numbers
NumericRaw(disk_fields) ==
    \A i \in 2..Len(disk_fields) : i # 4 => IsSome(ParseU64(disk_fields[i]))

\* the DISK line written for the raw line src: 18 fields after the timestamp,
\* major to weighted_io_time_ms copied, a field the input lacks written as 0
WellFormedDisk(l, src) ==
    /\ l.typ = "DISK"
    /\ Len(l.cols) = 1 + DiskFieldCount
    /\ NumericRaw(src) => IsSome(parse_disk_from_fields(Rest(l.cols, 1)))
    /\ \A i \in 2..15 : l.cols[i] = src[i]
    /\ \A i \in 16..(1 + DiskFieldCount) : i > Len(src) => l.cols[i] = 0

\* C25: every DISK line either collectl converter writes has exactly 18 fields
\* after the timestamp and is accepted by parse_disk_from_fields when the
\* input fields are numbers; discard fields the input line lacks are written
\* as 0, whatever accepted length the input line has.
C25_ConvertedDiskHas18Fields ==
    [][ dat' # dat =>
          /\ Len(dat') = Len(dat) + 1
          /\ WellFormedDisk(dat'[Len(dat')], Unwrap(raw')) ]_vars

\* the rhel7 converter has written the line of a disk without discard counters
C25_Witness ==
    /\ tool = "collectl2diskstats.rhel7"
    /\ IsSome(raw) /\ Len(Unwrap(raw)) = 15 /\ Unwrap(raw)[1] = disk
    /\ Len(dat) = MaxDatLines
    /\ SubSeq(dat[Len(dat)].cols, 2, 15) = SubSeq(Unwrap(raw), 2, 15)
    /\ SubSeq(dat[Len(dat)].cols, 16, 19) = << 0, 0, 0, 0 >>

\* ------------------------------------------------------------ two runs
\* the second run over the capture is under way or over
Second == run_no = 2 /\ IsSome(first_run)
\* the run before this one
First == Unwrap(first_run)
\* this run
ThisRun == Run(tool, from_sec, to_sec)
\* analyze has built its disk series
SeriesBuilt == tool = "analyze" /\ pc \notin { "parse", "disk" }

C26_WindowOnlyFilters ==
    ( /\ Second
      /\ First.run.tool = "playback_disk"
      /\ IsSome(First.run.from_sec) \/ IsSome(First.run.to_sec)
      /\ ThisRun = Run("playback_disk", None, None) )
    => \A i \in 1..Len(emitted) :
          IsSome(First.emitted[i]) => emitted[i] = First.emitted[i]

\* the rows printed for the device, in order
RECURSIVE PrintedFor(_, _)
PrintedFor(printed, name) ==
    IF Len(printed) = 0 THEN <<>>
    ELSE IF IsSome(Head(printed)) /\ Unwrap(Head(printed)).name = name
    THEN << Unwrap(Head(printed)) >> \o PrintedFor(Tail(printed), name)
    ELSE PrintedFor(Tail(printed), name)
\* what the three disk implementations all compute for an interval
Common(ts, r_s, w_s, rd_kbs, wr_kbs, avg_queue_depth, qlen) ==
    [ts |-> ts, r_s |-> r_s, w_s |-> w_s, rd_kbs |-> rd_kbs,
     wr_kbs |-> wr_kbs, avg_queue_depth |-> avg_queue_depth, qlen |-> qlen]
OfPlayback(printed) ==
    [i \in 1..Len(printed) |->
        Common(printed[i].ts, printed[i].r_s, printed[i].w_s,
               printed[i].rd_kbs, printed[i].wr_kbs,
               printed[i].avg_queue_depth, printed[i].qlen)]
OfSeries(series) ==
    [i \in 1..Len(series) |->
        Common(series[i].ts, series[i].rps, series[i].wps, series[i].rd_kbs,
               series[i].wr_kbs, series[i].avg_queue_depth, series[i].qlen)]

\* C27: the three disk implementations agree: for every device, the rows
\* playback_disk printed for a capture, the series analyze builds from it and
\* the series get_disk_metrics_map builds from it hold metrics for the same
\* records with the same rates and queue figures.
C27_DiskImplementationsAgree ==
    SeriesBuilt =>
        /\ \A dev \in DOMAIN per_device :
              OfSeries(GetOr(disk_metrics, dev, <<>>)) =
                  OfSeries(GetDiskMetricsLoop(per_device[dev], 1, None, <<>>))
        /\ (Second /\ First.run = Run("playback_disk", None, None)) =>
              \A dev \in DOMAIN per_device :
                  OfSeries(GetOr(disk_metrics, dev, <<>>)) =
                      OfPlayback(PrintedFor(First.emitted, dev))

\* ------------------------------------------------------------ top tables
\* C29: the top-50 tables analyze wrote are the tables every run over the
\* same file writes: whatever order the map of series hands out its devices
\* in, ties and devices beyond the cut included, the tables are the same.
C29_SameTablesEveryRun ==
    (tool = "analyze" /\ pc = "done" /\ status = "done") =>
        \A order \in KeyOrders(disk_metrics) :
            TopTables(disk_metrics, order) = tables
====
